---- MODULE Spec2Model ----
(***************************************************************************)
(* A model of the metrics aggregation of jira-streamlit: the JiraClient    *)
(* queries and field extraction (jira_client.py), the PI analytics rollups *)
(* (pi_analytics.py), the scrum metrics (scrum_metrics.py) and the ART     *)
(* summary of the overview tab (app.py).                                   *)
(*                                                                         *)
(* The program is request/response: every operation reads the issue        *)
(* source and returns a value.  The state is the content of the issue      *)
(* source (jira), the operation last invoked with its arguments and the    *)
(* outcome of each of its queries (call), what it returned or raised       *)
(* (ret), and the fields of st.session_state that outlive a script run     *)
(* (session).  Each area has its own specification, whose Init draws the   *)
(* source content from bounded sets.                                       *)
(*                                                                         *)
(* Strings the code parses, trims or sorts (labels, workstreams) are       *)
(* sequences of one-character strings; strings it only compares for        *)
(* equality (keys, statuses, sprint names) are TLA+ strings.               *)
(***************************************************************************)
EXTENDS Integers, Sequences, FiniteSets, TLC

VARIABLES jira, session, call, ret

vars == <<jira, session, call, ret>>

(***************************************************************************)
(* Python values                                                           *)
(***************************************************************************)
\* Python's None, and a value that is not None.
None == [some |-> FALSE]
Some(v) == [some |-> TRUE, val |-> v]

\* A call that returned v, and a call that raised exception e.
Ok(v) == [ok |-> TRUE, val |-> v]
Raise(e) == [ok |-> FALSE, err |-> e]

\* What call and ret hold before any operation was invoked.
NoCall == [op |-> "none"]
NoRet == Ok(<<>>)

\* st.session_state as init_session_state leaves it on the first run of
\* the script: no client, not connected, the default PI labels.
DefaultPiLabels == <<"PI-3_Reporting", "PI-4_Reporting", "PI-5_Reporting">>
NewSession ==
    [jira_client |-> None, connected |-> FALSE, pi_labels |-> DefaultPiLabels]

\* JiraClient(config): the client of a server and a token.
JiraClient(server, token) == [server |-> server, token |-> token]

\* The session the tabs are computed in: main returns before the tabs
\* unless authenticate_jira returned connected.
ConnectedSession ==
    [jira_client |-> Some(JiraClient("https://jira", "pat")),
     connected |-> TRUE, pi_labels |-> DefaultPiLabels]

\* An attribute of issue.fields: missing from the object, or present with
\* a value (None included).
Absent == [present |-> FALSE]
Field(v) == [present |-> TRUE, value |-> v]

\* getattr(issue.fields, name, default)
getattr(field, default) == IF field.present THEN field.value ELSE default

\* A value that is not a string (a number, an option object): it has no
\* strip method.
NotAString == [some |-> TRUE, val |-> <<>>, str |-> FALSE]

\* The script runs a request to completion before it takes the next: an
\* operation starts only when none is outstanding.
Idle == call = NoCall

\* Sequences over S of length at most n.
SeqsUpTo(S, n) == UNION {[1..k -> S] : k \in 0..n}

\* The members of sequence s.
Range(s) == {s[i] : i \in 1..Len(s)}

(***************************************************************************)
(* Strings as sequences of characters                                      *)
(***************************************************************************)
\* The code point of each character the model's strings are made of.
CharCode(c) ==
    CASE c = " " -> 32
      [] c = "-" -> 45
      [] c = "4" -> 52
      [] c = "5" -> 53
      [] c = "A" -> 65
      [] c = "B" -> 66
      [] c = "I" -> 73
      [] c = "P" -> 80
      [] c = "U" -> 85
      [] c = "X" -> 88
      [] c = "_" -> 95
      [] c = "k" -> 107
      [] c = "n" -> 110
      [] c = "o" -> 111
      [] c = "w" -> 119

\* Python's str < str: lexicographic by code point, a proper prefix first.
RECURSIVE StrLess(_, _)
StrLess(a, b) ==
    IF b = <<>> THEN FALSE
    ELSE IF a = <<>> THEN TRUE
    ELSE IF CharCode(Head(a)) # CharCode(Head(b))
         THEN CharCode(Head(a)) < CharCode(Head(b))
         ELSE StrLess(Tail(a), Tail(b))

\* sorted(S) for a set S of strings: ascending, as a sequence.
RECURSIVE sorted(_)
sorted(S) ==
    IF S = {} THEN <<>>
    ELSE LET m == CHOOSE x \in S : \A y \in S \ {x} : StrLess(x, y)
         IN <<m>> \o sorted(S \ {m})

\* str.startswith(prefix)
startswith(s, prefix) ==
    /\ Len(s) >= Len(prefix)
    /\ SubSeq(s, 1, Len(prefix)) = prefix

\* str.split(sep) for a one-character separator: the segments between the
\* separators, empty segments kept; a string without separator is its only
\* segment.
RECURSIVE split(_, _)
split(s, sep) ==
    IF \E i \in 1..Len(s) : s[i] = sep
    THEN LET i == CHOOSE k \in 1..Len(s) :
                      s[k] = sep /\ \A j \in 1..(k - 1) : s[j] # sep
         IN <<SubSeq(s, 1, i - 1)>> \o split(SubSeq(s, i + 1, Len(s)), sep)
    ELSE <<s>>

\* The prefix that marks a PI label.
PiPrefix == <<"P", "I", "-">>

\* The statuses that count as completed.
DoneSet == {"Done", "Closed"}

(***************************************************************************)
(* The issue source                                                        *)
(***************************************************************************)
\* The result cap of every query of JiraClient (maxResults=1000), scaled
\* down so that the bounded sources can exceed it.
MaxResults == 3

\* The outcomes of one query: the source answers, or rejects the query.
QueryOutcomes == {"ok", "fail"}

\* jira.search_issues(jql, maxResults=MaxResults): matching is the sequence
\* of the source's issues that satisfy the JQL, in the source's order; the
\* first MaxResults of them are returned, or the query raises.
search_issues(matching, outcome) ==
    IF outcome = "fail" THEN Raise("JIRAError")
    ELSE Ok(SubSeq(matching, 1, IF Len(matching) < MaxResults
                                THEN Len(matching) ELSE MaxResults))

\* pd.DataFrame(records): the columns are those of the records, and a
\* frame made from the empty list has no columns at all.
DataFrame(records, columns) ==
    [columns |-> IF records = <<>> THEN {} ELSE columns, rows |-> records]

(***************************************************************************)
(* Features                                                                *)
(***************************************************************************)
\* JiraClient._extract_art_from_label: the second segment of the first
\* label that starts with PI- and has a second segment.
RECURSIVE _extract_art_from_label(_)
_extract_art_from_label(labels) ==
    IF labels = <<>> THEN None
    ELSE LET label == Head(labels)
             parts == split(label, "_")
         IN IF startswith(label, PiPrefix) /\ Len(parts) > 1
            THEN Some(parts[2])
            ELSE _extract_art_from_label(Tail(labels))

\* The pi read from the first label alone.
_extract_pi_from_label_FirstLabelOnly(labels) ==
    IF labels # <<>> /\ startswith(Head(labels), PiPrefix)
    THEN Some(split(Head(labels), "_")[1])
    ELSE None

\* JiraClient._extract_pi_from_label: the first segment of the first label
\* that starts with PI-.
RECURSIVE _extract_pi_from_label(_)
_extract_pi_from_label(labels) ==
    IF labels = <<>> THEN None
    ELSE LET label == Head(labels)
             parts == split(label, "_")
         IN IF startswith(label, PiPrefix) /\ Len(parts) > 0
            THEN Some(parts[1])
            ELSE _extract_pi_from_label(Tail(labels))

\* The columns of the features frame.
FeatureColumns ==
    {"key", "summary", "status", "art", "pi", "business_benefit",
     "created", "updated"}

\* The record get_features_by_pi makes of one issue (the fields the
\* metrics read; summary, business_benefit, created and updated are copied
\* through and read by no computation).
FeatureRecord(issue) ==
    [key |-> issue.key,
     status |-> issue.status,
     art |-> _extract_art_from_label(issue.labels),
     pi |-> _extract_pi_from_label(issue.labels)]

\* The JQL issueType = "Feature" AND labels = "<pi_label>".
JqlFeaturesOfPi(features, pi_label) ==
    LET Matches(f) == pi_label \in Range(f.labels)
    IN SelectSeq(features, Matches)

\* JiraClient.get_features_by_pi
get_features_by_pi(features, pi_label, outcome) ==
    LET found == search_issues(JqlFeaturesOfPi(features, pi_label), outcome)
    IN IF ~found.ok THEN found
       ELSE Ok(DataFrame([i \in 1..Len(found.val) |->
                              FeatureRecord(found.val[i])],
                         FeatureColumns))

\* create_feature_health_matrix(features_df): the figure it returns, and
\* the frame of the caller after the call.  The function assigns the
\* column days_in_progress on the frame it was handed; a frame without the
\* column created raises KeyError before anything is assigned.  (The
\* values of the new column depend on the clock and are left out, like the
\* fields of a row that no metric reads.)
create_feature_health_matrix(features_df) ==
    IF "created" \notin features_df.columns
    THEN [result |-> Raise("KeyError"), features_df |-> features_df]
    ELSE [result |-> Ok("Feature Health Matrix"),
          features_df |->
              [features_df EXCEPT
                   !.columns = @ \cup {"days_in_progress"}]]

\* The script is rerun on the next interaction: what the last operation
\* returned is dropped, the source and the session are as they were.
Rerun ==
    /\ ~Idle
    /\ call' = NoCall
    /\ ret' = NoRet
    /\ UNCHANGED <<jira, session>>

(***************************************************************************)
(* SpecFeature: get_features_by_pi over one feature with any label list    *)
(***************************************************************************)
\* The most labels on the feature.
MaxLabels == 2

\* The segments labels are made of, and the labels: one segment, or two
\* joined by "_".
Segments == {<<>>, <<"P", "I">>, <<"P", "I", "-", "4">>, <<"A">>}
LabelUniverse ==
    Segments \cup {a \o <<"_">> \o b : a \in Segments, b \in Segments}

FeatureStatuses == {"Done", "Open"}

InitFeature ==
    /\ \E labels \in SeqsUpTo(LabelUniverse, MaxLabels) :
       \E status \in FeatureStatuses :
           jira = [features |-> <<[key |-> "F1", labels |-> labels,
                                   status |-> status]>>,
                   stories |-> <<>>, issues |-> <<>>]
    /\ session = ConnectedSession
    /\ call = NoCall
    /\ ret = NoRet

\* A request for the features of one PI label.
GetFeaturesByPi ==
    \E pi_label \in LabelUniverse, outcome \in QueryOutcomes :
        /\ Idle
        /\ pi_label \in Range(jira.features[1].labels) \/ pi_label = <<"A">>
        /\ call' = [op |-> "get_features_by_pi", pi_label |-> pi_label,
                    outcome |-> outcome]
        /\ ret' = get_features_by_pi(jira.features, pi_label, outcome)
        /\ UNCHANGED <<jira, session>>

\* The features frame a request returned is handed to
\* create_feature_health_matrix: call keeps the frame as it was handed
\* over, ret holds the outcome and the frame as the caller finds it
\* afterwards.
CreateFeatureHealthMatrix ==
    /\ call.op = "get_features_by_pi"
    /\ ret.ok
    /\ call' = [op |-> "create_feature_health_matrix",
                features_df |-> ret.val]
    /\ ret' = LET out == create_feature_health_matrix(ret.val)
              IN IF out.result.ok
                 THEN Ok([figure |-> out.result.val,
                          features_df |-> out.features_df])
                 ELSE out.result
    /\ UNCHANGED <<jira, session>>

NextFeature == GetFeaturesByPi \/ CreateFeatureHealthMatrix \/ Rerun

SpecFeature == InitFeature /\ [][NextFeature]_vars

\* The first label of labels that starts with PI-, as a sequence of at most
\* one label.
FirstPiLabel(labels) ==
    LET IsPi(l) == startswith(l, PiPrefix)
        pis == SelectSeq(labels, IsPi)
    IN IF pis = <<>> THEN <<>> ELSE <<Head(pis)>>

\* C8: for any label list, a feature's pi and art both come from the FIRST
\* label with prefix PI-: pi is its segment before the first "_", art is its
\* second segment, or undefined when that label has no "_"; when no label
\* has the prefix both are undefined.
C8_PiAndArtFromFirstPiLabel ==
    (call.op = "get_features_by_pi" /\ ret.ok /\ ret.val.rows # <<>>) =>
        LET first == FirstPiLabel(jira.features[1].labels)
            row == ret.val.rows[1]
        IN IF first = <<>>
           THEN row.pi = None /\ row.art = None
           ELSE LET parts == split(first[1], "_")
                IN /\ row.pi = Some(parts[1])
                   /\ row.art = IF Len(parts) > 1 THEN Some(parts[2]) ELSE None

(***************************************************************************)
(* Stories                                                                 *)
(***************************************************************************)
\* str.strip(): without its leading and trailing whitespace.
RECURSIVE lstrip(_)
lstrip(s) == IF s # <<>> /\ Head(s) = " " THEN lstrip(Tail(s)) ELSE s
RECURSIVE rstrip(_)
rstrip(s) ==
    IF s # <<>> /\ s[Len(s)] = " " THEN rstrip(SubSeq(s, 1, Len(s) - 1)) ELSE s
\* Trimming that leaves the trailing blanks in place.
strip_LeadingOnly(s) == lstrip(s)

strip(s) == rstrip(lstrip(s))

\* The sentinels of the missing-field policy.
Unknown == <<"U", "n", "k", "n", "o", "w", "n">>
Unassigned == "Unassigned"

\* JiraClient._get_workstream_safe: the trimmed customfield_20403, or
\* "Unknown" when it is missing, None, blank, or when reading it raises
\* (strip on a value that is not a string).
_get_workstream_safe(issue) ==
    LET workstream == getattr(issue.customfield_20403, None)
    IN IF ~workstream.some THEN Unknown
       ELSE IF "str" \in DOMAIN workstream THEN Unknown
       ELSE IF workstream.val # <<>> /\ strip(workstream.val) # <<>>
            THEN strip(workstream.val)
            ELSE Unknown

\* The story points read with a default of 1 for a missing field.
StoryPointsOf_DefaultOne(issue) ==
    LET v == getattr(issue.customfield_10003, Some(1))
    IN IF v.some /\ v.val # 0 THEN v.val ELSE 0

\* getattr(issue.fields, 'customfield_10003', 0) or 0
StoryPointsOf(issue) ==
    LET v == getattr(issue.customfield_10003, Some(0))
    IN IF v.some /\ v.val # 0 THEN v.val ELSE 0

\* getattr(issue.fields, 'customfield_11702', feature_key)
FeatureLinkOf(issue, feature_key) ==
    getattr(issue.customfield_11702, Some(feature_key))

\* issue.fields.assignee.displayName if issue.fields.assignee else 'Unassigned'
AssigneeOf(issue) ==
    IF issue.assignee.some THEN issue.assignee.val ELSE Unassigned

\* The columns of the stories frame.
StoryColumns ==
    {"key", "summary", "status", "story_points", "workstream", "sprint",
     "feature_link", "assignee", "created", "updated"}

\* The record get_stories_for_feature makes of one issue (summary, sprint,
\* created and updated are copied through and read by no computation).
StoryRecord(issue, feature_key) ==
    [key |-> issue.key,
     status |-> issue.status,
     story_points |-> StoryPointsOf(issue),
     workstream |-> _get_workstream_safe(issue),
     feature_link |-> FeatureLinkOf(issue, feature_key),
     assignee |-> AssigneeOf(issue)]

\* The JQL customfield_11702 = "<feature_key>" OR "Epic Link" = "<feature_key>".
JqlStoriesOfFeature(stories, feature_key) ==
    LET Matches(s) ==
            \/ /\ s.customfield_11702.present
               /\ s.customfield_11702.value = Some(feature_key)
            \/ s.epic_link = Some(feature_key)
    IN SelectSeq(stories, Matches)

\* JiraClient.get_stories_for_feature
get_stories_for_feature(stories, feature_key, outcome) ==
    LET found == search_issues(JqlStoriesOfFeature(stories, feature_key),
                               outcome)
    IN IF ~found.ok THEN found
       ELSE Ok(DataFrame([i \in 1..Len(found.val) |->
                              StoryRecord(found.val[i], feature_key)],
                         StoryColumns))

(***************************************************************************)
(* SpecStory: get_stories_for_feature over one story with any fields       *)
(***************************************************************************)
FeatureKeys == {"F1", "F2"}

\* The values of each field of a story issue.
LinkFields == {Absent, Field(None)} \cup {Field(Some(k)) : k \in FeatureKeys}
EpicLinks == {None} \cup {Some(k) : k \in FeatureKeys}
PointFields == {Absent, Field(None), Field(Some(0)), Field(Some(3))}
WorkstreamFields ==
    {Absent, Field(None), Field(NotAString), Field(Some(<<>>)),
     Field(Some(<<" ">>)), Field(Some(<<" ", "A">>)), Field(Some(<<"A">>)),
     Field(Some(<<" ", "A", " ", "B", " ">>))}
Assignees == {None, Some("Ann")}
StoryStatuses == {"Done", "Open"}

InitStory ==
    /\ \E link \in LinkFields, epic \in EpicLinks, points \in PointFields :
       \E workstream \in WorkstreamFields, assignee \in Assignees :
       \E status \in StoryStatuses :
           jira = [features |-> <<>>,
                   stories |-> <<[key |-> "S1", status |-> status,
                                  customfield_10003 |-> points,
                                  customfield_20403 |-> workstream,
                                  customfield_11702 |-> link,
                                  epic_link |-> epic,
                                  assignee |-> assignee]>>,
                   issues |-> <<>>]
    /\ session = ConnectedSession
    /\ call = NoCall
    /\ ret = NoRet

\* A request for the stories of one feature.
GetStoriesForFeature ==
    \E feature_key \in FeatureKeys, outcome \in QueryOutcomes :
        /\ Idle
        /\ call' = [op |-> "get_stories_for_feature",
                    feature_key |-> feature_key, outcome |-> outcome]
        /\ ret' = get_stories_for_feature(jira.stories, feature_key, outcome)
        /\ UNCHANGED <<jira, session>>

NextStory == GetStoriesForFeature \/ Rerun

SpecStory == InitStory /\ [][NextStory]_vars

\* C9: the feature_link of every story produced by get_stories_for_feature
\* is the direct link field when it is present and not null, otherwise the
\* epic link when present, otherwise the feature key of the call; it is
\* never null.
C9_FeatureLinkResolved ==
    (call.op = "get_stories_for_feature" /\ ret.ok /\ ret.val.rows # <<>>) =>
        LET issue == jira.stories[1]
            link == getattr(issue.customfield_11702, None)
            row == ret.val.rows[1]
        IN /\ row.feature_link # None
           /\ row.feature_link =
                  IF link # None THEN link
                  ELSE IF issue.epic_link # None THEN issue.epic_link
                  ELSE Some(call.feature_key)

(***************************************************************************)
(* Rollups: get_pi_metrics, get_pi_objectives_data, the overview's ART     *)
(* summary, the health gauge                                               *)
(***************************************************************************)
\* A percentage completed / total * 100 as the exact fraction num / den.
Fraction(n, d) == [num |-> n, den |-> d]

\* (completed / total) * 100 if total > 0 else 0
Rate(completed, total) ==
    IF total > 0 THEN Fraction(completed * 100, total) ELSE Fraction(0, 1)

\* DataFrame.empty: no rows, or no columns.
IsEmpty(df) == df.rows = <<>> \/ df.columns = {}

\* The truth value of an optional string: None and "" are false.
Truthy(v) == v.some /\ v.val # <<>>

\* The rows a comparison of the status that ignores case takes as
\* completed.
DoneRows_AnyCase(rows) ==
    LET IsDone(r) == r.status \in {"Done", "Closed", "done", "DONE"}
    IN SelectSeq(rows, IsDone)

\* df[df['status'].isin(['Done', 'Closed'])]
DoneRows(rows) ==
    LET IsDone(r) == r.status \in DoneSet
    IN SelectSeq(rows, IsDone)

\* df['story_points'].sum()
RECURSIVE SumPoints(_)
SumPoints(rows) ==
    IF rows = <<>> THEN 0 ELSE Head(rows).story_points + SumPoints(Tail(rows))

\* stories_df[stories_df['workstream'] == workstream]
RowsOfWorkstream(rows, workstream) ==
    LET Same(r) == r.workstream = workstream
    IN SelectSeq(rows, Same)

\* StoryTotals with the completed stories and points taken from the frame
\* before the workstream filter.
StoryTotals_CompletedUnfiltered(stories_df, workstream) ==
    IF Truthy(workstream) /\ "workstream" \notin stories_df.columns
    THEN Raise("KeyError")
    ELSE IF "status" \notin stories_df.columns
              \/ "story_points" \notin stories_df.columns
    THEN Raise("KeyError")
    ELSE LET rows == IF Truthy(workstream)
                     THEN RowsOfWorkstream(stories_df.rows, workstream.val)
                     ELSE stories_df.rows
         IN Ok([total_stories |-> Len(rows),
                completed_stories |-> Len(DoneRows(stories_df.rows)),
                total_story_points |-> SumPoints(rows),
                completed_story_points |->
                    SumPoints(DoneRows(stories_df.rows))])

\* One pass of the loop of get_pi_metrics over the stories frame of a
\* feature: what it adds to the four totals.  Reading a column the frame
\* does not have raises KeyError.
StoryTotals(stories_df, workstream) ==
    IF Truthy(workstream) /\ "workstream" \notin stories_df.columns
    THEN Raise("KeyError")
    ELSE IF "status" \notin stories_df.columns
              \/ "story_points" \notin stories_df.columns
    THEN Raise("KeyError")
    ELSE LET rows == IF Truthy(workstream)
                     THEN RowsOfWorkstream(stories_df.rows, workstream.val)
                     ELSE stories_df.rows
         IN Ok([total_stories |-> Len(rows),
                completed_stories |-> Len(DoneRows(rows)),
                total_story_points |-> SumPoints(rows),
                completed_story_points |-> SumPoints(DoneRows(rows))])

\* The totals before the first feature.
ZeroTotals ==
    [total_stories |-> 0, completed_stories |-> 0,
     total_story_points |-> 0, completed_story_points |-> 0]

\* The loop over the features with the totals of each feature replacing
\* those of the features before it.
RECURSIVE PiTotals_KeepLast(_, _, _, _, _)
PiTotals_KeepLast(feature_rows, stories, workstream, outcome, acc) ==
    IF feature_rows = <<>> THEN Ok(acc)
    ELSE LET stories_df ==
                 get_stories_for_feature(stories, Head(feature_rows).key,
                                         outcome)
             t == IF stories_df.ok
                  THEN StoryTotals(stories_df.val, workstream)
                  ELSE stories_df
         IN IF ~t.ok THEN t
            ELSE PiTotals_KeepLast(Tail(feature_rows), stories, workstream,
                                   outcome, t.val)

\* The loop of get_pi_metrics over the features: one story query per
\* feature, its totals added to acc; the first exception ends the loop.
RECURSIVE PiTotals(_, _, _, _, _)
PiTotals(feature_rows, stories, workstream, outcome, acc) ==
    IF feature_rows = <<>> THEN Ok(acc)
    ELSE LET stories_df ==
                 get_stories_for_feature(stories, Head(feature_rows).key,
                                         outcome)
             t == IF stories_df.ok
                  THEN StoryTotals(stories_df.val, workstream)
                  ELSE stories_df
         IN IF ~t.ok THEN t
            ELSE PiTotals(Tail(feature_rows), stories, workstream, outcome,
                     [total_stories |->
                          acc.total_stories + t.val.total_stories,
                      completed_stories |->
                          acc.completed_stories + t.val.completed_stories,
                      total_story_points |->
                          acc.total_story_points + t.val.total_story_points,
                      completed_story_points |->
                          acc.completed_story_points
                              + t.val.completed_story_points])

\* The empty dict a rollup returns when the PI has no features.
EmptyDict == [empty |-> TRUE]

\* The outcome of the feature query and of the story queries of a rollup,
\* given which of them the source rejects.
FeatureOutcome(fails) == IF fails = "features" THEN "fail" ELSE "ok"
StoryOutcome(fails) == IF fails = "stories" THEN "fail" ELSE "ok"

\* JiraClient.get_pi_metrics
get_pi_metrics(src, pi_label, workstream, fails) ==
    LET features_df ==
            get_features_by_pi(src.features, pi_label, FeatureOutcome(fails))
    IN IF ~features_df.ok THEN features_df
       ELSE IF IsEmpty(features_df.val) THEN Ok(EmptyDict)
       ELSE LET rows == features_df.val.rows
                t == PiTotals(rows, src.stories, workstream,
                              StoryOutcome(fails), ZeroTotals)
            IN IF ~t.ok THEN t
               ELSE Ok([total_features |-> Len(rows),
                        completed_features |-> Len(DoneRows(rows)),
                        total_stories |-> t.val.total_stories,
                        completed_stories |-> t.val.completed_stories,
                        total_story_points |-> t.val.total_story_points,
                        completed_story_points |->
                            t.val.completed_story_points,
                        feature_completion_rate |->
                            Rate(Len(DoneRows(rows)), Len(rows)),
                        story_completion_rate |->
                            Rate(t.val.completed_stories,
                                 t.val.total_stories),
                        story_points_completion_rate |->
                            Rate(t.val.completed_story_points,
                                 t.val.total_story_points)])

\* Series.unique(): the distinct values in the order they first appear.
RECURSIVE UniqueFrom(_, _)
UniqueFrom(s, seen) ==
    IF s = <<>> THEN <<>>
    ELSE IF Head(s) \in seen THEN UniqueFrom(Tail(s), seen)
    ELSE <<Head(s)>> \o UniqueFrom(Tail(s), seen \cup {Head(s)})
Unique(s) == UniqueFrom(s, {})

\* The rows of an ART with the comparison of the art left out: every
\* feature of the PI.
RowsOfArt_AnyArt(rows, art) == rows

\* features_df[features_df['art'] == art]
RowsOfArt(rows, art) ==
    LET Same(r) == r.art = Some(art)
    IN SelectSeq(rows, Same)

\* The inner loop of get_pi_objectives_data over the features of one ART:
\* one story query per feature, its points added to acc.
RECURSIVE ArtPoints(_, _, _, _)
ArtPoints(art_rows, stories, outcome, acc) ==
    IF art_rows = <<>> THEN Ok(acc)
    ELSE LET stories_df ==
                 get_stories_for_feature(stories, Head(art_rows).key, outcome)
         IN IF ~stories_df.ok THEN stories_df
            ELSE IF "story_points" \notin stories_df.val.columns
                      \/ "status" \notin stories_df.val.columns
            THEN Raise("KeyError")
            ELSE ArtPoints(Tail(art_rows), stories, outcome,
                     [total_story_points |->
                          acc.total_story_points
                              + SumPoints(stories_df.val.rows),
                      completed_story_points |->
                          acc.completed_story_points
                              + SumPoints(DoneRows(stories_df.val.rows))])

\* The entry of objectives_by_art of one ART.
ArtObjectives(art, art_rows, points) ==
    [art |-> art,
     committed_features |-> Len(art_rows),
     delivered_features |-> Len(DoneRows(art_rows)),
     committed_points |-> points.total_story_points,
     delivered_points |-> points.completed_story_points,
     feature_predictability |-> Rate(Len(DoneRows(art_rows)), Len(art_rows)),
     points_predictability |->
         Rate(points.completed_story_points, points.total_story_points)]

\* The outer loop of get_pi_objectives_data over the distinct values of
\* the art column; an undefined art is skipped.  The dict is the sequence
\* of its entries in insertion order.
RECURSIVE ObjectivesByArt(_, _, _, _)
ObjectivesByArt(arts, rows, stories, outcome) ==
    IF arts = <<>> THEN Ok(<<>>)
    ELSE IF Head(arts) = None
    THEN ObjectivesByArt(Tail(arts), rows, stories, outcome)
    ELSE LET art == Head(arts).val
             art_rows == RowsOfArt(rows, art)
             points == ArtPoints(art_rows, stories, outcome,
                           [total_story_points |-> 0,
                            completed_story_points |-> 0])
             rest == ObjectivesByArt(Tail(arts), rows, stories, outcome)
         IN IF ~points.ok THEN points
            ELSE IF ~rest.ok THEN rest
            ELSE Ok(<<ArtObjectives(art, art_rows, points.val)>> \o rest.val)

\* PIAnalytics.get_pi_objectives_data
get_pi_objectives_data(src, pi_label, fails) ==
    LET features_df ==
            get_features_by_pi(src.features, pi_label, FeatureOutcome(fails))
    IN IF ~features_df.ok THEN features_df
       ELSE IF IsEmpty(features_df.val) THEN Ok(<<>>)
       ELSE LET rows == features_df.val.rows
            IN ObjectivesByArt(Unique([i \in 1..Len(rows) |-> rows[i].art]),
                               rows, src.stories, StoryOutcome(fails))

\* sum([data[field] for data in objectives_data.values()])
RECURSIVE SumField(_, _)
SumField(entries, field) ==
    IF entries = <<>> THEN 0
    ELSE Head(entries)[field] + SumField(Tail(entries), field)

\* PIAnalytics.create_pi_health_dashboard: the value of the health gauge
\* (the figures themselves are not modelled).
create_pi_health_dashboard(src, pi_label, fails) ==
    LET objectives_data == get_pi_objectives_data(src, pi_label, fails)
    IN IF ~objectives_data.ok THEN objectives_data
       ELSE IF objectives_data.val = <<>> THEN Ok(EmptyDict)
       ELSE Ok([health_gauge |->
                    Rate(SumField(objectives_data.val, "delivered_features"),
                         SumField(objectives_data.val, "committed_features"))])

(***************************************************************************)
(* ART performance scores                                                  *)
(***************************************************************************)
\* Arithmetic on exact fractions: a + b, a * n / d, a <= b.
FracAdd(a, b) == Fraction(a.num * b.den + b.num * a.den, a.den * b.den)
FracScale(a, n, d) == Fraction(a.num * n, a.den * d)
FracLeq(a, b) == a.num * b.den <= b.num * a.den

\* min(100, x)
Min100(x) == IF FracLeq(Fraction(100, 1), x) THEN Fraction(100, 1) ELSE x

\* round(x, 1), in tenths: the nearest tenth of the exact value, a tie to
\* the even tenth.
Round1(x) ==
    LET q == (x.num * 10) \div x.den
        r == (x.num * 10) % x.den
    IN IF 2 * r < x.den THEN q
       ELSE IF 2 * r > x.den THEN q + 1
       ELSE IF q % 2 = 0 THEN q ELSE q + 1

\* The quality score with the cap at 100 left out.
QualityScore_Uncapped(points_predictability) ==
    FracScale(points_predictability, 6, 5)

\* quality_score = min(100, data['points_predictability'] * 1.2)
QualityScore(points_predictability) ==
    Min100(FracScale(points_predictability, 6, 5))

\* The overall score with both parts at full weight.
OverallScore_Unweighted(predictability_score, quality_score) ==
    FracAdd(predictability_score, quality_score)

\* overall_score = (predictability_score * 0.6 + quality_score * 0.4)
OverallScore(predictability_score, quality_score) ==
    FracAdd(FracScale(predictability_score, 3, 5),
            FracScale(quality_score, 2, 5))

\* The body of the loop of calculate_art_performance_scores: the row of
\* one ART, the rounded columns in tenths, with the three scores as they
\* are before rounding.
PerformanceRow(data) ==
    LET predictability_score ==
            FracScale(FracAdd(data.feature_predictability,
                              data.points_predictability), 1, 2)
        quality_score == QualityScore(data.points_predictability)
        overall_score == OverallScore(predictability_score, quality_score)
    IN [ART |-> data.art,
        features_committed |-> data.committed_features,
        features_delivered |-> data.delivered_features,
        points_committed |-> data.committed_points,
        points_delivered |-> data.delivered_points,
        feature_predictability_pct |-> Round1(data.feature_predictability),
        points_predictability_pct |-> Round1(data.points_predictability),
        quality_score_col |-> Round1(quality_score),
        overall_score_col |-> Round1(overall_score),
        predictability_score |-> predictability_score,
        quality_score |-> quality_score,
        overall_score |-> overall_score]

PerformanceColumns ==
    {"ART", "Features Committed", "Features Delivered", "Points Committed",
     "Points Delivered", "Feature Predictability (%)",
     "Points Predictability (%)", "Quality Score", "Overall Score"}

\* PIAnalytics.calculate_art_performance_scores
calculate_art_performance_scores(src, pi_label, fails) ==
    LET objectives_data == get_pi_objectives_data(src, pi_label, fails)
    IN IF ~objectives_data.ok THEN objectives_data
       ELSE Ok(DataFrame([i \in 1..Len(objectives_data.val) |->
                             PerformanceRow(objectives_data.val[i])],
                         PerformanceColumns))

\* The art_summary table of display_pi_overview: features_df grouped by
\* art (groupby drops an undefined key and sorts the keys), with the
\* completion rate of each group, computed without a guard.
art_summary(src, selected_pi, fails) ==
    LET features_df ==
            get_features_by_pi(src.features, selected_pi,
                               FeatureOutcome(fails))
    IN IF ~features_df.ok THEN features_df
       ELSE IF IsEmpty(features_df.val) THEN Ok(<<>>)
       ELSE LET rows == features_df.val.rows
                arts == sorted({rows[i].art.val :
                                    i \in {j \in 1..Len(rows) :
                                               rows[j].art # None}})
            IN Ok([i \in 1..Len(arts) |->
                      LET group == RowsOfArt(rows, arts[i])
                      IN [art |-> arts[i],
                          total_features |-> Len(group),
                          completed_features |-> Len(DoneRows(group)),
                          completion_rate |->
                              Fraction(Len(DoneRows(group)) * 100,
                                       Len(group))]])

(***************************************************************************)
(* Team velocity                                                           *)
(***************************************************************************)
\* The JQL customfield_20403 = "<workstream>" AND sprint is not EMPTY.
JqlSprintIssues(issues, workstream) ==
    LET Matches(i) == i.workstream = workstream /\ i.sprint # None
    IN SelectSeq(issues, Matches)

\* getattr(issue.fields, 'customfield_story_points', 0) or 0
SprintPointsOf(issue) ==
    LET v == getattr(issue.customfield_story_points, Some(0))
    IN IF v.some /\ v.val # 0 THEN v.val ELSE 0

\* The position of sprint in the dict sprint_data, 0 when it is no key.
SprintIndex(sprint_data, sprint) ==
    IF \E i \in 1..Len(sprint_data) : sprint_data[i].sprint = sprint
    THEN CHOOSE i \in 1..Len(sprint_data) : sprint_data[i].sprint = sprint
    ELSE 0

\* The first loop of calculate_team_velocity: sprint_data, a dict, as the
\* sequence of its entries in insertion order.  An issue whose sprint
\* attribute is missing or None is skipped.
RECURSIVE SprintData(_, _)
SprintData(issues, sprint_data) ==
    IF issues = <<>> THEN sprint_data
    ELSE LET issue == Head(issues)
             sprint_field == getattr(issue.customfield_sprint, None)
         IN IF ~sprint_field.some
            THEN SprintData(Tail(issues), sprint_data)
            ELSE LET story_points == SprintPointsOf(issue)
                     done == issue.status \in DoneSet
                     with_key ==
                         IF SprintIndex(sprint_data, sprint_field.val) = 0
                         THEN Append(sprint_data,
                                     [sprint |-> sprint_field.val,
                                      total_points |-> 0,
                                      completed_points |-> 0,
                                      total_stories |-> 0,
                                      completed_stories |-> 0])
                         ELSE sprint_data
                     k == SprintIndex(with_key, sprint_field.val)
                     d == with_key[k]
                 IN SprintData(Tail(issues),
                        [with_key EXCEPT ![k] =
                            [sprint |-> d.sprint,
                             total_points |-> d.total_points + story_points,
                             completed_points |->
                                 d.completed_points
                                     + (IF done THEN story_points ELSE 0),
                             total_stories |-> d.total_stories + 1,
                             completed_stories |->
                                 d.completed_stories
                                     + (IF done THEN 1 ELSE 0)]])

\* The slice s[-n:] of a list.
LastN(s, n) ==
    IF n = 0 \/ n >= Len(s) THEN s
    ELSE IF n > 0 THEN SubSeq(s, Len(s) - n + 1, Len(s))
    ELSE SubSeq(s, (IF -n < Len(s) THEN -n ELSE Len(s)) + 1, Len(s))

\* One entry of velocity_data.
VelocityPoint(data, workstream) ==
    [sprint |-> data.sprint,
     workstream |-> workstream,
     velocity |-> data.completed_points,
     planned_points |-> data.total_points,
     completion_rate |-> Rate(data.completed_points, data.total_points)]

\* ScrumMetricsCalculator.calculate_team_velocity
calculate_team_velocity(issues, workstream, num_sprints, outcome) ==
    LET found == search_issues(JqlSprintIssues(issues, workstream), outcome)
    IN IF ~found.ok THEN found
       ELSE LET recent == LastN(SprintData(found.val, <<>>), num_sprints)
            IN Ok([i \in 1..Len(recent) |->
                      VelocityPoint(recent[i], workstream)])

(***************************************************************************)
(* SpecRollup: the rollups over the features and stories of a PI, and the  *)
(* velocity over the issues of sprints                                     *)
(***************************************************************************)
\* The labels of the features of a PI.
PI4 == <<"P", "I", "-", "4">>
PI4_A == <<"P", "I", "-", "4", "_", "A">>
PI4_B == <<"P", "I", "-", "4", "_", "B">>
PiFeatureLabels == {<<PI4>>, <<PI4, PI4_A>>, <<PI4_B, PI4>>}

\* The PI labels and workstream filters of a request, and which queries
\* of a request the source rejects.
PiLabels == {PI4, PI4_A}
WorkstreamFilters == {None, Some(<<"A">>)}
Failures == {"none", "features", "stories"}

\* The keys of the feature and story issues of the source, in its order.
FeatureKeySeq == <<"F1", "F2">>
StoryKeySeq == <<"S1", "S2">>

\* The feature issues and the story issues a source may hold.
PiFeatureIssues(key) ==
    {[key |-> key, labels |-> l, status |-> st] :
         l \in PiFeatureLabels, st \in FeatureStatuses}
PiStoryIssues(key) ==
    {[key |-> key, status |-> st,
      customfield_10003 |-> Field(Some(p)),
      customfield_20403 |-> w,
      customfield_11702 |-> Field(Some(k)),
      epic_link |-> None,
      assignee |-> None] :
         st \in StoryStatuses, p \in {0, 2},
         w \in {Absent, Field(Some(<<"A">>))}, k \in FeatureKeys}

\* The sources that hold the first n issues of keys, each drawn from
\* Issues(key).
IssueSeqs(keys, Issues(_)) ==
    UNION {{s \in [1..n -> UNION {Issues(keys[i]) : i \in 1..n}] :
                \A i \in 1..n : s[i] \in Issues(keys[i])} :
           n \in 0..Len(keys)}

InitPi ==
    /\ \E features \in IssueSeqs(FeatureKeySeq, PiFeatureIssues) :
       \E stories \in IssueSeqs(StoryKeySeq, PiStoryIssues) :
           jira = [features |-> features, stories |-> stories,
                   issues |-> <<>>]
    /\ session = ConnectedSession
    /\ call = NoCall
    /\ ret = NoRet

\* The most issues in sprints.
MaxSprintIssues == 3

\* The sprint, points and status of an issue in a sprint of workstream A:
\* the sprint attribute may be missing although the issue is in a sprint.
SprintIssues ==
    {[workstream |-> <<"A">>, sprint |-> sp.sprint,
      customfield_sprint |-> sp.attr,
      customfield_story_points |-> ps.points, status |-> ps.status] :
         sp \in {[sprint |-> Some("S1"), attr |-> Field(Some("S1"))],
                 [sprint |-> Some("S2"), attr |-> Field(Some("S2"))],
                 [sprint |-> Some("S3"), attr |-> Field(Some("S3"))],
                 [sprint |-> Some("S1"), attr |-> Absent]},
         ps \in {[points |-> Field(None), status |-> "Open"],
                 [points |-> Field(Some(2)), status |-> "Done"],
                 [points |-> Field(Some(2)), status |-> "Open"]}}

InitSprints ==
    /\ \E issues \in SeqsUpTo(SprintIssues, MaxSprintIssues) :
           jira = [features |-> <<>>, stories |-> <<>>, issues |-> issues]
    /\ session = ConnectedSession
    /\ call = NoCall
    /\ ret = NoRet

InitRollup == InitPi \/ InitSprints

\* The values of num_sprints of a request; 5 is the default.
NumSprints == {0, 1, 2, 5}

GetPiMetrics ==
    \E pi_label \in PiLabels, workstream \in WorkstreamFilters :
    \E fails \in Failures :
        /\ Idle
        /\ call' = [op |-> "get_pi_metrics", pi_label |-> pi_label,
                    workstream |-> workstream, fails |-> fails]
        /\ ret' = get_pi_metrics(jira, pi_label, workstream, fails)
        /\ UNCHANGED <<jira, session>>

GetPiObjectivesData ==
    \E pi_label \in PiLabels, fails \in Failures :
        /\ Idle
        /\ call' = [op |-> "get_pi_objectives_data", pi_label |-> pi_label,
                    fails |-> fails]
        /\ ret' = get_pi_objectives_data(jira, pi_label, fails)
        /\ UNCHANGED <<jira, session>>

CreatePiHealthDashboard ==
    \E pi_label \in PiLabels, fails \in Failures :
        /\ Idle
        /\ call' = [op |-> "create_pi_health_dashboard",
                    pi_label |-> pi_label, fails |-> fails]
        /\ ret' = create_pi_health_dashboard(jira, pi_label, fails)
        /\ UNCHANGED <<jira, session>>

ArtSummary ==
    \E selected_pi \in PiLabels, fails \in Failures \ {"stories"} :
        /\ Idle
        /\ call' = [op |-> "art_summary", pi_label |-> selected_pi,
                    fails |-> fails]
        /\ ret' = art_summary(jira, selected_pi, fails)
        /\ UNCHANGED <<jira, session>>

CalculateTeamVelocity ==
    \E num_sprints \in NumSprints, outcome \in QueryOutcomes :
        /\ Idle
        /\ call' = [op |-> "calculate_team_velocity",
                    workstream |-> <<"A">>, num_sprints |-> num_sprints,
                    outcome |-> outcome]
        /\ ret' = calculate_team_velocity(jira.issues, <<"A">>, num_sprints,
                                          outcome)
        /\ UNCHANGED <<jira, session>>

CalculateArtPerformanceScores ==
    \E pi_label \in PiLabels, fails \in Failures :
        /\ Idle
        /\ call' = [op |-> "calculate_art_performance_scores",
                    pi_label |-> pi_label, fails |-> fails]
        /\ ret' = calculate_art_performance_scores(jira, pi_label, fails)
        /\ UNCHANGED <<jira, session>>

NextRollup ==
    \/ GetPiMetrics
    \/ GetPiObjectivesData
    \/ CreatePiHealthDashboard
    \/ ArtSummary
    \/ CalculateTeamVelocity
    \/ CalculateArtPerformanceScores
    \/ Rerun

SpecRollup == InitRollup /\ [][NextRollup]_vars

\* The features a request for pi_label finds, and the stories of the
\* source that belong to one of them and pass the workstream filter.
FeaturesFound(pi_label) ==
    search_issues(JqlFeaturesOfPi(jira.features, pi_label), "ok").val
StoriesCounted(pi_label, workstream) ==
    {<<f, s>> \in (1..Len(FeaturesFound(pi_label)))
                      \X (1..Len(jira.stories)) :
        /\ JqlStoriesOfFeature(<<jira.stories[s]>>,
                               FeaturesFound(pi_label)[f].key) # <<>>
        /\ Truthy(workstream) =>
               _get_workstream_safe(jira.stories[s]) = workstream.val}

\* C1: a feature whose story query returns no story is tolerated by the
\* per-feature loop of get_pi_metrics (with or without a workstream filter)
\* and of get_pi_objectives_data: when the source rejects no query the
\* computation returns, and in get_pi_metrics the stories counted are
\* those of the features that have some.
C1_EmptyStorySetTolerated ==
    (call.op \in {"get_pi_metrics", "get_pi_objectives_data"}
         /\ call.fails = "none") =>
        /\ ret.ok
        /\ ((call.op = "get_pi_metrics"
                 /\ FeaturesFound(call.pi_label) # <<>>) =>
                ret.val.total_stories =
                    Cardinality(StoriesCounted(call.pi_label,
                                               call.workstream)))

\* A percentage in the closed range [0, 100].
InRange(r) == r.den > 0 /\ 0 <= r.num /\ r.num <= 100 * r.den

\* C4: every rate a rollup produces lies in [0, 100]: the three completion
\* rates of get_pi_metrics, the two predictabilities of each ART, the
\* completion rate of each sprint of calculate_team_velocity and of each
\* ART of the overview's summary.
C4_RatesInRange ==
    ret.ok =>
        /\ ((call.op = "get_pi_metrics" /\ ret.val # EmptyDict) =>
                /\ InRange(ret.val.feature_completion_rate)
                /\ InRange(ret.val.story_completion_rate)
                /\ InRange(ret.val.story_points_completion_rate))
        /\ (call.op = "get_pi_objectives_data" =>
                \A i \in 1..Len(ret.val) :
                    /\ InRange(ret.val[i].feature_predictability)
                    /\ InRange(ret.val[i].points_predictability))
        /\ (call.op \in {"calculate_team_velocity", "art_summary"} =>
                \A i \in 1..Len(ret.val) :
                    InRange(ret.val[i].completion_rate))

\* A request with a workstream filter that keeps one of two stories
\* returned rates strictly inside the range.
C4_Witness ==
    /\ call.op = "get_pi_metrics"
    /\ Truthy(call.workstream)
    /\ ret.ok
    /\ ret.val # EmptyDict
    /\ Len(jira.stories) = 2
    /\ ret.val.total_stories = 1
    /\ ret.val.total_features = 2
    /\ ret.val.completed_features = 1
    /\ ret.val.total_story_points = 2
    /\ ret.val.completed_story_points = 2

\* A rate that is exactly 0.
IsZero(r) == r.den > 0 /\ r.num = 0

\* C5: whenever the denominator of a rate is 0 (no stories, no story
\* points, no planned points, no committed points) the rate is exactly 0
\* and no error results, in get_pi_metrics, get_pi_objectives_data,
\* calculate_team_velocity and the health gauge.
C5_ZeroDenominatorZeroRate ==
    /\ (call.op = "get_pi_metrics" /\ call.fails = "none"
            /\ FeaturesFound(call.pi_label) # <<>>
            /\ StoriesCounted(call.pi_label, call.workstream) = {}) =>
           /\ ret.ok
           /\ IsZero(ret.val.story_completion_rate)
           /\ IsZero(ret.val.story_points_completion_rate)
    /\ (call.op = "get_pi_metrics" /\ ret.ok /\ ret.val # EmptyDict) =>
           /\ (ret.val.total_stories = 0 =>
                   IsZero(ret.val.story_completion_rate))
           /\ (ret.val.total_story_points = 0 =>
                   IsZero(ret.val.story_points_completion_rate))
    /\ (call.op = "get_pi_objectives_data" /\ ret.ok) =>
           \A i \in 1..Len(ret.val) :
               (ret.val[i].committed_points = 0 =>
                    IsZero(ret.val[i].points_predictability))
    /\ (call.op = "calculate_team_velocity" /\ ret.ok) =>
           \A i \in 1..Len(ret.val) :
               (ret.val[i].planned_points = 0 =>
                    IsZero(ret.val[i].completion_rate))
    /\ (call.op = "create_pi_health_dashboard" /\ ret.ok) =>
           (ret.val # EmptyDict => InRange(ret.val.health_gauge))

\* The sprints of the issues a velocity request finds, in the order they
\* are first observed.
SprintsObserved ==
    LET found == search_issues(JqlSprintIssues(jira.issues, call.workstream),
                               "ok").val
        HasSprint(i) == getattr(i.customfield_sprint, None) # None
        with_sprint == SelectSeq(found, HasSprint)
    IN Unique([i \in 1..Len(with_sprint) |->
                  with_sprint[i].customfield_sprint.value.val])

\* C10: calculate_team_velocity(workstream, N) returns exactly the last
\* min(N, number of distinct sprints) sprint groups, in the order the
\* sprints are first observed, for every N >= 0; N = 0 yields the empty
\* sequence.
C10_LastNSprintsInObservedOrder ==
    (call.op = "calculate_team_velocity" /\ ret.ok) =>
        LET n == IF call.num_sprints < Len(SprintsObserved)
                 THEN call.num_sprints ELSE Len(SprintsObserved)
        IN [i \in 1..Len(ret.val) |-> ret.val[i].sprint] =
               SubSeq(SprintsObserved, Len(SprintsObserved) - n + 1,
                      Len(SprintsObserved))

(***************************************************************************)
(* Change histories: cycle time and burndown                               *)
(***************************************************************************)
\* The result cap of the queries that expand the changelog
\* (maxResults=500), scaled down so that the bounded sources can exceed it.
MaxChangelogResults == 2

\* jira.search_issues(jql, expand='changelog', maxResults=500)
search_issues_changelog(matching, outcome) ==
    IF outcome = "fail" THEN Raise("JIRAError")
    ELSE Ok(SubSeq(matching, 1, IF Len(matching) < MaxChangelogResults
                                THEN Len(matching)
                                ELSE MaxChangelogResults))

\* Timestamps are whole hours, counted from midnight of the day the
\* burndown window starts.
HoursPerDay == 24

\* Timestamp.date(): the day of a timestamp.
DateOf(t) == t \div HoursPerDay

\* The days of a difference with a negative difference clamped to 0.
DaysOf_Clamped(delta) == IF delta < 0 THEN 0 ELSE delta \div HoursPerDay

\* Timedelta.days: the whole days of a difference, rounded down.
DaysOf(delta) == delta \div HoursPerDay

\* item.field == 'status' and item.toString in ['Done', 'Closed']
IsDoneItem(item) == item.field = "status" /\ item.toString \in DoneSet

\* The number of items of a history entry that move the status to Done or
\* Closed.
RECURSIVE DoneItems(_)
DoneItems(items) ==
    IF items = <<>> THEN 0
    ELSE (IF IsDoneItem(Head(items)) THEN 1 ELSE 0) + DoneItems(Tail(items))

\* The scan with the test of the items left out: the created time of the
\* first entry of the history, whatever it changes.
done_date_AnyEntry(histories) ==
    IF histories = <<>> THEN None ELSE Some(Head(histories).created)

\* The scan of calculate_cycle_time over issue.changelog.histories, in the
\* order the source delivers them: the created time of the first entry
\* holding an item that moves the status to Done or Closed.
RECURSIVE done_date(_)
done_date(histories) ==
    IF histories = <<>> THEN None
    ELSE IF DoneItems(Head(histories).items) > 0
         THEN Some(Head(histories).created)
         ELSE done_date(Tail(histories))

\* The JQL customfield_20403 = "<workstream>" AND status = "Done".
JqlDoneIssues(issues, workstream) ==
    LET Matches(i) == i.workstream = workstream /\ i.status = "Done"
    IN SelectSeq(issues, Matches)

CycleColumns ==
    {"issue_key", "created", "completed", "cycle_time_days", "story_points"}

\* The loop of calculate_cycle_time: one record per issue with a done
\* date.
RECURSIVE cycle_times(_)
cycle_times(issues) ==
    IF issues = <<>> THEN <<>>
    ELSE LET issue == Head(issues)
             d == done_date(issue.histories)
         IN (IF d.some
             THEN <<[issue_key |-> issue.key,
                     created |-> issue.created,
                     completed |-> d.val,
                     cycle_time_days |-> DaysOf(d.val - issue.created),
                     story_points |-> SprintPointsOf(issue)]>>
             ELSE <<>>) \o cycle_times(Tail(issues))

\* ScrumMetricsCalculator.calculate_cycle_time
calculate_cycle_time(issues, workstream, outcome) ==
    LET found == search_issues_changelog(JqlDoneIssues(issues, workstream),
                                         outcome)
    IN IF ~found.ok THEN found
       ELSE Ok(DataFrame(cycle_times(found.val), CycleColumns))

(***************************************************************************)
(* Binary floating point (IEEE 754 double precision, round to nearest,     *)
(* ties to even), as far as the ideal line of the burndown needs it        *)
(***************************************************************************)
\* The number of significant binary digits of a float.
MantissaBits == 53

\* A natural number of any size is written in binary digits, lowest
\* first, without high zeros; sums, products and quotients are computed on
\* groups of DigitBits binary digits.
DigitBits == 12
DigitBase == 4096
PowersOfTwo == <<1, 2, 4, 8, 16, 32, 64, 128, 256, 512, 1024, 2048>>

\* The binary digits b without their high zeros.
TrimBits(b) ==
    LET ones == {i \in 1..Len(b) : b[i] = 1}
    IN IF ones = {} THEN <<>>
       ELSE SubSeq(b, 1, CHOOSE i \in ones : \A j \in ones : j <= i)

\* The binary digits of the number with the digits ds in base DigitBase.
BitsOf(ds) ==
    TrimBits([i \in 1..(DigitBits * Len(ds)) |->
                  (ds[((i - 1) \div DigitBits) + 1]
                       \div PowersOfTwo[((i - 1) % DigitBits) + 1]) % 2])

\* The value of the binary digits b[from], ..., b[from + n - 1], those
\* beyond the end of b read as 0.
RECURSIVE BitsValue(_, _, _)
BitsValue(b, from, n) ==
    IF n = 0 THEN 0
    ELSE (IF from <= Len(b) THEN b[from] ELSE 0)
         + 2 * BitsValue(b, from + 1, n - 1)

\* The digits in base DigitBase of the number with the binary digits b.
DigitsOf(b) ==
    [j \in 1..((Len(b) + DigitBits - 1) \div DigitBits) |->
         BitsValue(b, (j - 1) * DigitBits + 1, DigitBits)]

\* The digits in base DigitBase of a small number.
RECURSIVE NatDigits(_)
NatDigits(n) ==
    IF n = 0 THEN <<>> ELSE <<n % DigitBase>> \o NatDigits(n \div DigitBase)

NatBits(n) == BitsOf(NatDigits(n))

\* b * 2^n
ShiftBits(b, n) == IF b = <<>> THEN <<>> ELSE [i \in 1..n |-> 0] \o b

\* ds * k + carry, for a small k.
RECURSIVE MulDigits(_, _, _)
MulDigits(ds, k, carry) ==
    IF ds = <<>> THEN NatDigits(carry)
    ELSE LET v == Head(ds) * k + carry
         IN <<v % DigitBase>> \o MulDigits(Tail(ds), k, v \div DigitBase)

MulBits(b, k) == BitsOf(MulDigits(DigitsOf(b), k, 0))

\* Quotient and remainder of ds by a small k.
RECURSIVE DivDigits(_, _)
DivDigits(ds, k) ==
    IF ds = <<>> THEN [q |-> <<>>, r |-> 0]
    ELSE LET hi == DivDigits(Tail(ds), k)
             cur == hi.r * DigitBase + Head(ds)
         IN [q |-> <<cur \div k>> \o hi.q, r |-> cur % k]

DivBits(b, k) ==
    LET d == DivDigits(DigitsOf(b), k) IN [q |-> BitsOf(d.q), r |-> d.r]

\* xs + ys + carry
RECURSIVE AddDigits(_, _, _)
AddDigits(xs, ys, carry) ==
    IF xs = <<>> /\ ys = <<>> THEN NatDigits(carry)
    ELSE LET x == IF xs = <<>> THEN 0 ELSE Head(xs)
             y == IF ys = <<>> THEN 0 ELSE Head(ys)
             v == x + y + carry
         IN <<v % DigitBase>>
                \o AddDigits(IF xs = <<>> THEN xs ELSE Tail(xs),
                             IF ys = <<>> THEN ys ELSE Tail(ys),
                             v \div DigitBase)

AddBits(a, b) == BitsOf(AddDigits(DigitsOf(a), DigitsOf(b), 0))

\* xs - ys - borrow, for xs >= ys + borrow.
RECURSIVE SubDigits(_, _, _)
SubDigits(xs, ys, borrow) ==
    IF xs = <<>> THEN <<>>
    ELSE LET y == IF ys = <<>> THEN 0 ELSE Head(ys)
             v == Head(xs) - y - borrow
         IN <<v % DigitBase>>
                \o SubDigits(Tail(xs), IF ys = <<>> THEN ys ELSE Tail(ys),
                             IF v < 0 THEN 1 ELSE 0)

SubBits(a, b) == BitsOf(SubDigits(DigitsOf(a), DigitsOf(b), 0))

\* a < b, for trimmed a and b.
LessBits(a, b) ==
    \/ Len(a) < Len(b)
    \/ /\ Len(a) = Len(b)
       /\ \E i \in 1..Len(a) :
              /\ a[i] < b[i]
              /\ \A j \in (i + 1)..Len(a) : a[j] = b[j]

\* The number of low zeros of a non-empty trimmed b.
LowZeros(b) ==
    (CHOOSE i \in 1..Len(b) : b[i] = 1 /\ \A j \in 1..(i - 1) : b[j] = 0) - 1

\* The float (-1)^neg * mant * 2^exp in its one representation: an odd
\* mantissa, and 0.0 written with exponent 0.
Float(neg, mant, exp) ==
    IF mant = <<>> THEN [neg |-> FALSE, mant |-> <<>>, exp |-> 0]
    ELSE [neg |-> neg,
          mant |-> SubSeq(mant, LowZeros(mant) + 1, Len(mant)),
          exp |-> exp + LowZeros(mant)]

\* The float nearest to (-1)^neg * (mant + s) * 2^exp, where 0 < s < 1
\* when sticky and s = 0 otherwise: a tie goes to the even mantissa.
RoundFloat(neg, mant, exp, sticky) ==
    LET drop == Len(mant) - MantissaBits
    IN IF drop <= 0 THEN Float(neg, mant, exp)
       ELSE LET kept == SubSeq(mant, drop + 1, Len(mant))
                rest == sticky \/ \E i \in 1..(drop - 1) : mant[i] = 1
                up == mant[drop] = 1 /\ (rest \/ kept[1] = 1)
            IN Float(neg, IF up THEN AddBits(kept, <<1>>) ELSE kept,
                     exp + drop)

\* The digits the dividend of a division is extended by, so that the
\* quotient has more than MantissaBits digits.
GuardShift == 60

\* n / k for integers n >= 0 and 0 < k < 16
FloatDivInt(n, k) ==
    LET d == DivBits(ShiftBits(NatBits(n), GuardShift), k)
    IN RoundFloat(FALSE, d.q, 0 - GuardShift, d.r # 0)

\* x * n for a float x and an integer n >= 0
FloatMulInt(x, n) ==
    RoundFloat(x.neg, MulBits(x.mant, n), x.exp, FALSE)

\* n - x for an integer n >= 0 and a float x >= 0
IntSubFloat(n, x) ==
    LET e == IF x.exp < 0 THEN x.exp ELSE 0
        a == ShiftBits(NatBits(n), 0 - e)
        b == ShiftBits(x.mant, x.exp - e)
    IN IF LessBits(a, b)
       THEN RoundFloat(TRUE, SubBits(b, a), e, FALSE)
       ELSE RoundFloat(FALSE, SubBits(a, b), e, FALSE)

\* x <= y
FloatLeq(x, y) ==
    LET e == IF x.exp < y.exp THEN x.exp ELSE y.exp
        a == ShiftBits(x.mant, x.exp - e)
        b == ShiftBits(y.mant, y.exp - e)
    IN IF x.neg /\ ~y.neg THEN TRUE
       ELSE IF ~x.neg /\ y.neg THEN FALSE
       ELSE IF x.neg THEN ~LessBits(a, b)
       ELSE ~LessBits(b, a)

\* The length of a sprint in days, and the number of days of the burndown
\* series.
SprintDays == 14
BurndownDays == 15

\* total_points - (total_points / 14 * day), in floating point
ideal_remaining(total, day) ==
    IntSubFloat(total, FloatMulInt(FloatDivInt(total, SprintDays), day))

\* The JQL customfield_20403 = "<workstream>" AND sprint = "<sprint>".
JqlIssuesOfSprint(issues, workstream, sprint) ==
    LET Matches(i) == i.workstream = workstream /\ i.sprint = Some(sprint)
    IN SelectSeq(issues, Matches)

\* sum([getattr(issue.fields, 'customfield_story_points', 0) or 0 ...])
RECURSIVE total_points(_)
total_points(issues) ==
    IF issues = <<>> THEN 0
    ELSE SprintPointsOf(Head(issues)) + total_points(Tail(issues))

\* The loop counting only the entries dated on the day itself.
RECURSIVE HistoryPointsByDate_OnTheDay(_, _, _)
HistoryPointsByDate_OnTheDay(histories, points, day) ==
    IF histories = <<>> THEN 0
    ELSE (IF DateOf(Head(histories).created) = day
          THEN DoneItems(Head(histories).items) * points ELSE 0)
         + HistoryPointsByDate_OnTheDay(Tail(histories), points, day)

\* The loop over the histories of one issue for one day of the burndown:
\* the points of the issue, once for every item that moves the status to
\* Done or Closed in an entry dated on or before the day.
RECURSIVE HistoryPointsByDate(_, _, _)
HistoryPointsByDate(histories, points, day) ==
    IF histories = <<>> THEN 0
    ELSE (IF DateOf(Head(histories).created) <= day
          THEN DoneItems(Head(histories).items) * points ELSE 0)
         + HistoryPointsByDate(Tail(histories), points, day)

\* The loop over the issues for one day of the burndown.
RECURSIVE points_completed_by_date(_, _)
points_completed_by_date(issues, day) ==
    IF issues = <<>> THEN 0
    ELSE HistoryPointsByDate(Head(issues).histories,
                             SprintPointsOf(Head(issues)), day)
         + points_completed_by_date(Tail(issues), day)

\* The most story points the issues of one sprint have in total.
MaxTotalPoints == 42

\* The ideal line of every total, computed once.
IdealLine ==
    [total \in 0..MaxTotalPoints |->
         [day \in 0..SprintDays |-> ideal_remaining(total, day)]]

\* One entry of burndown_data; the day is counted from the start of the
\* window, 14 days before today.
BurndownPoint(issues, day) ==
    [date |-> day,
     remaining_points |->
         total_points(issues) - points_completed_by_date(issues, day),
     ideal_remaining |-> IdealLine[total_points(issues)][day]]

\* ScrumMetricsCalculator.create_burndown_chart: the figure, as the series
\* of its two traces.
create_burndown_chart(issues, workstream, sprint, outcome) ==
    LET found == search_issues_changelog(
                     JqlIssuesOfSprint(issues, workstream, sprint), outcome)
    IN IF ~found.ok THEN found
       ELSE Ok([d \in 1..BurndownDays |-> BurndownPoint(found.val, d - 1)])

(***************************************************************************)
(* SpecChangelog: cycle time and burndown over issues with change          *)
(* histories                                                               *)
(***************************************************************************)
\* The most entries in the change history of an issue.
MaxHistories == 2

\* The items of a history entry.
ToDone == [field |-> "status", toString |-> "Done"]
ToClosed == [field |-> "status", toString |-> "Closed"]
ToOpen == [field |-> "status", toString |-> "Open"]
ResolutionDone == [field |-> "resolution", toString |-> "Done"]
HistoryItems ==
    {<<>>, <<ToDone>>, <<ToClosed>>, <<ToOpen>>, <<ResolutionDone, ToDone>>}

\* The times of history entries: the day before the window, its second
\* day, its last day (today) and the day after; and the times an issue is
\* created at: the start of the window, late on its first day and on
\* its second day.
HistoryTimes == {-1, 30, 350, 365}
CreatedTimes == {0, 20, 40}

HistoryEntries ==
    {[created |-> t, items |-> it] : t \in HistoryTimes, it \in HistoryItems}

\* One issue with any history, in the order the source delivers it.
HistoryIssues ==
    {[key |-> "I1", workstream |-> <<"A">>, sprint |-> sp, status |-> st,
      created |-> c, customfield_story_points |-> p, histories |-> h] :
         sp \in {None, Some("S1")}, st \in {"Done", "Open"},
         c \in CreatedTimes, p \in {Absent, Field(None), Field(Some(2))},
         h \in SeqsUpTo(HistoryEntries, MaxHistories)}

\* The keys of the issues of a source of several issues, and the issues:
\* done, in sprint S1, completed once or not at all.
ChangelogKeySeq == <<"I1", "I2", "I3">>
ChangelogIssues(key) ==
    {[key |-> key, workstream |-> w, sprint |-> Some("S1"),
      status |-> "Done", created |-> 0,
      customfield_story_points |-> Field(Some(p)), histories |-> h] :
         w \in {<<"A">>, <<"B">>}, p \in {8, 21},
         h \in {<<>>, <<[created |-> 30, items |-> <<ToDone>>]>>,
                <<[created |-> 350, items |-> <<ToClosed>>]>>}}

InitChangelog ==
    /\ \E issues \in {<<i>> : i \in HistoryIssues}
                         \cup IssueSeqs(ChangelogKeySeq, ChangelogIssues) :
           jira = [features |-> <<>>, stories |-> <<>>, issues |-> issues]
    /\ session = ConnectedSession
    /\ call = NoCall
    /\ ret = NoRet

CalculateCycleTime ==
    \E outcome \in QueryOutcomes :
        /\ Idle
        /\ call' = [op |-> "calculate_cycle_time", workstream |-> <<"A">>,
                    outcome |-> outcome]
        /\ ret' = calculate_cycle_time(jira.issues, <<"A">>, outcome)
        /\ UNCHANGED <<jira, session>>

CreateBurndownChart ==
    \E outcome \in QueryOutcomes :
        /\ Idle
        /\ call' = [op |-> "create_burndown_chart", workstream |-> <<"A">>,
                    sprint |-> "S1", outcome |-> outcome]
        /\ ret' = create_burndown_chart(jira.issues, <<"A">>, "S1", outcome)
        /\ UNCHANGED <<jira, session>>

NextChangelog ==
    \/ CalculateCycleTime
    \/ CreateBurndownChart
    \/ Rerun

SpecChangelog == InitChangelog /\ [][NextChangelog]_vars

\* The times of the history entries of an issue that change the field
\* status to Done or Closed.
DoneTimes(issue) ==
    {issue.histories[k].created :
         k \in {j \in 1..Len(issue.histories) :
                    \E n \in 1..Len(issue.histories[j].items) :
                        /\ issue.histories[j].items[n].field = "status"
                        /\ issue.histories[j].items[n].toString \in DoneSet}}

\* C2: for every issue calculate_cycle_time records, the completed
\* timestamp is that of the earliest-by-timestamp history entry that changes
\* status to Done or Closed, whatever order the source delivers the
\* entries in.
C2_CompletedIsEarliestDone ==
    (call.op = "calculate_cycle_time" /\ ret.ok) =>
        \A r \in 1..Len(ret.val.rows) :
        \A i \in 1..Len(jira.issues) :
            jira.issues[i].key = ret.val.rows[r].issue_key =>
                /\ ret.val.rows[r].completed \in DoneTimes(jira.issues[i])
                /\ \A t \in DoneTimes(jira.issues[i]) :
                       ret.val.rows[r].completed <= t

\* The points of the issues whose first change of status to Done or Closed
\* is dated on or before the day, each issue once.
RECURSIVE PointsDoneBy(_, _)
PointsDoneBy(issues, day) ==
    IF issues = <<>> THEN 0
    ELSE (IF \E t \in DoneTimes(Head(issues)) : t \div HoursPerDay <= day
          THEN SprintPointsOf(Head(issues)) ELSE 0)
         + PointsDoneBy(Tail(issues), day)

\* C3: on every day d of the burndown series, remaining_points is
\* total_points minus the points of the issues first done on or before
\* that day, each issue subtracted at most once however often it was
\* done, so 0 <= remaining_points <= total_points.
C3_RemainingCountsEachIssueOnce ==
    (call.op = "create_burndown_chart" /\ ret.ok) =>
        LET found == search_issues_changelog(
                         JqlIssuesOfSprint(jira.issues, call.workstream,
                                           call.sprint), "ok").val
        IN \A d \in 1..Len(ret.val) :
               /\ ret.val[d].remaining_points =
                      total_points(found) - PointsDoneBy(found, d - 1)
               /\ ret.val[d].remaining_points >= 0
               /\ ret.val[d].remaining_points <= total_points(found)

(***************************************************************************)
(* Discovery: the PI labels and the workstreams of the source              *)
(***************************************************************************)
\* The JQL issueType = "Feature" AND (labels = "l1" OR labels = "l2" ...).
JqlFeaturesWithLabels(features, pi_labels) ==
    LET Matches(i) == \E k \in 1..Len(i.labels) :
                          i.labels[k] \in Range(pi_labels)
    IN SelectSeq(features, Matches)

\* The labels of a sequence of issues.
LabelsOf(issues) == UNION {Range(issues[i].labels) : i \in 1..Len(issues)}

\* The loop over the result of the targeted query: found_pis.
FoundPis(issues, pi_labels) ==
    {label \in LabelsOf(issues) : label \in Range(pi_labels)}

\* The loop over the result of the fallback query, with the labels it
\* keeps when every label with the prefix PI- is kept.
FallbackPis_PrefixOnly(issues, pi_labels) ==
    {label \in LabelsOf(issues) : startswith(label, PiPrefix)}

\* The loop over the result of the fallback query: pis.
FallbackPis(issues, pi_labels) ==
    {label \in LabelsOf(issues) :
         IF pi_labels # <<>> THEN label \in Range(pi_labels)
         ELSE startswith(label, PiPrefix)}

\* get_available_pis with a failure of the fallback query swallowed: the
\* empty list is returned for it.
get_available_pis_FailureAsEmpty(features, pi_labels, targeted, fallback) ==
    LET direct == search_issues(JqlFeaturesWithLabels(features, pi_labels),
                                targeted)
    IN IF pi_labels # <<>> /\ direct.ok
       THEN Ok(sorted(FoundPis(direct.val, pi_labels)))
       ELSE LET issues == search_issues(features, fallback)
            IN IF ~issues.ok THEN Ok(<<>>)
               ELSE Ok(sorted(FallbackPis(issues.val, pi_labels)))

\* JiraClient.get_available_pis; pi_labels None or empty is <<>>.
get_available_pis(features, pi_labels, targeted, fallback) ==
    LET direct == search_issues(JqlFeaturesWithLabels(features, pi_labels),
                                targeted)
    IN IF pi_labels # <<>> /\ direct.ok
       THEN Ok(sorted(FoundPis(direct.val, pi_labels)))
       ELSE LET issues == search_issues(features, fallback)
            IN IF ~issues.ok THEN issues
               ELSE Ok(sorted(FallbackPis(issues.val, pi_labels)))

\* The warning of the overview for an empty list of PIs.
NoPiLabelsFound == "No PI labels found in Jira"

\* The start of display_pi_overview, up to the selection of the PI: the
\* warning when no PI is available, the PIs to select from otherwise; a
\* failure of get_available_pis is not caught.
offer_available_pis(features, pi_labels, targeted, fallback) ==
    LET available_pis ==
            get_available_pis(features, pi_labels, targeted, fallback)
    IN IF ~available_pis.ok THEN available_pis
       ELSE IF available_pis.val = <<>>
       THEN Ok([warning |-> NoPiLabelsFound, options |-> <<>>])
       ELSE Ok([warning |-> "", options |-> available_pis.val])

\* Every issue of the source, in its order.
AllIssues(src) == src.features \o src.stories \o src.issues

\* The JQL customfield_20403 is not EMPTY.
JqlWithWorkstream(issues) ==
    LET Matches(i) == getattr(i.customfield_20403, None) # None
    IN SelectSeq(issues, Matches)

\* get_all_workstreams with a plain sort, "Unknown" at its alphabetical
\* position.
get_all_workstreams_PlainSort(src, targeted, fallback) ==
    LET direct == search_issues(JqlWithWorkstream(AllIssues(src)), targeted)
        issues == IF direct.ok THEN direct
                  ELSE search_issues(AllIssues(src), fallback)
    IN IF ~issues.ok THEN issues
       ELSE Ok(sorted({_get_workstream_safe(issues.val[i]) :
                           i \in 1..Len(issues.val)}))

\* JiraClient.get_all_workstreams
get_all_workstreams(src, targeted, fallback) ==
    LET direct == search_issues(JqlWithWorkstream(AllIssues(src)), targeted)
        issues == IF direct.ok THEN direct
                  ELSE search_issues(AllIssues(src), fallback)
    IN IF ~issues.ok THEN issues
       ELSE LET workstreams ==
                    {_get_workstream_safe(issues.val[i]) :
                         i \in 1..Len(issues.val)}
                sorted_workstreams == sorted(workstreams \ {Unknown})
            IN Ok(IF Unknown \in workstreams
                  THEN Append(sorted_workstreams, Unknown)
                  ELSE sorted_workstreams)

(***************************************************************************)
(* SpecDiscovery: get_available_pis and get_all_workstreams over a source  *)
(* of features that may exceed the result cap                              *)
(***************************************************************************)
\* The most features of the source.
MaxFeatures == 4

PI5 == <<"P", "I", "-", "5">>
PIX == <<"P", "I", "-", "X">>

\* The preferred PI labels of a request: none, or PI-5 and PI-4.
PreferredLabels == {<<>>, <<PI5, PI4>>}

\* The features of the source: labelled with a preferred PI label, with a
\* PI label that is not preferred, or with no PI label; with a workstream,
\* a workstream to trim, or none.
DiscoveryFeatures ==
    {[key |-> "F", labels |-> l, status |-> "Open",
      customfield_20403 |-> w] :
         l \in {<<>>, <<PI5>>, <<<<"X">>, PI4>>, <<PIX>>},
         w \in {Absent, Field(Some(<<"X">>)), Field(Some(<<"A", " ">>))}}

\* The keys of the features of the source, in its order.
DiscoveryKeySeq == <<"F1", "F2", "F3", "F4", "F5", "F6">>

InitDiscovery ==
    /\ \E features \in SeqsUpTo(DiscoveryFeatures, MaxFeatures) :
           jira = [features |->
                       [i \in 1..Len(features) |->
                           [features[i] EXCEPT !.key = DiscoveryKeySeq[i]]],
                   stories |-> <<>>, issues |-> <<>>]
    /\ session = ConnectedSession
    /\ call = NoCall
    /\ ret = NoRet

GetAvailablePis ==
    \E pi_labels \in PreferredLabels :
    \E targeted \in QueryOutcomes, fallback \in QueryOutcomes :
        /\ Idle
        /\ call' = [op |-> "get_available_pis", pi_labels |-> pi_labels,
                    targeted |-> targeted, fallback |-> fallback]
        /\ ret' = get_available_pis(jira.features, pi_labels, targeted,
                                    fallback)
        /\ UNCHANGED <<jira, session>>

GetAllWorkstreams ==
    \E targeted \in QueryOutcomes, fallback \in QueryOutcomes :
        /\ Idle
        /\ call' = [op |-> "get_all_workstreams", targeted |-> targeted,
                    fallback |-> fallback]
        /\ ret' = get_all_workstreams(jira, targeted, fallback)
        /\ UNCHANGED <<jira, session>>

\* The overview tab is displayed, up to the selection of the PI.
OfferAvailablePis ==
    \E pi_labels \in PreferredLabels :
    \E targeted \in QueryOutcomes, fallback \in QueryOutcomes :
        /\ Idle
        /\ call' = [op |-> "display_pi_overview", pi_labels |-> pi_labels,
                    targeted |-> targeted, fallback |-> fallback]
        /\ ret' = offer_available_pis(jira.features, pi_labels, targeted,
                                      fallback)
        /\ UNCHANGED <<jira, session>>

NextDiscovery ==
    \/ GetAvailablePis
    \/ GetAllWorkstreams
    \/ OfferAvailablePis
    \/ Rerun

SpecDiscovery == InitDiscovery /\ [][NextDiscovery]_vars

\* A request for the available PIs with preferred labels whose targeted
\* query failed and whose fallback query succeeded.
PisByFallback ==
    /\ call.op = "get_available_pis"
    /\ call.pi_labels # <<>>
    /\ call.targeted = "fail"
    /\ call.fallback = "ok"

\* The list the targeted query yields when it succeeds: the preferred
\* labels carried by the features the query returns, sorted ascending.
PisByTargeted ==
    Ok(sorted({l \in Range(call.pi_labels) :
                  \E i \in 1..Len(search_issues(
                                JqlFeaturesWithLabels(jira.features,
                                    call.pi_labels), "ok").val) :
                      l \in Range(search_issues(
                                JqlFeaturesWithLabels(jira.features,
                                    call.pi_labels), "ok").val[i].labels)}))

C7_WorkstreamFallbackEqualsTargeted ==
    (/\ call.op = "get_all_workstreams"
     /\ call.targeted = "fail"
     /\ call.fallback = "ok") =>
        ret = get_all_workstreams(jira, "ok", "ok")

\* C11: an issue whose history holds no entry changing status to Done or
\* Closed gets no cycle-time record at all, and the completed timestamp of
\* every record is that of such an entry of the same issue.
C11_NoDoneEventNoRecord ==
    (call.op = "calculate_cycle_time" /\ ret.ok) =>
        /\ \A i \in 1..Len(jira.issues) :
               DoneTimes(jira.issues[i]) = {} =>
                   \A r \in 1..Len(ret.val.rows) :
                       ret.val.rows[r].issue_key # jira.issues[i].key
        /\ \A r \in 1..Len(ret.val.rows) :
               \E i \in 1..Len(jira.issues) :
                   /\ jira.issues[i].key = ret.val.rows[r].issue_key
                   /\ ret.val.rows[r].completed \in DoneTimes(jira.issues[i])

C11_Witness ==
    /\ call.op = "calculate_cycle_time"
    /\ ret.ok
    /\ Len(jira.issues) = 2
    /\ jira.issues[1].workstream = <<"A">>
    /\ jira.issues[1].histories = <<>>
    /\ jira.issues[2].workstream = <<"A">>
    /\ Len(ret.val.rows) = 1
    /\ ret.val.rows[1].issue_key = "I2"
    /\ ret.val.rows[1].completed = 30

(***************************************************************************)
(* SpecCompletion: the rollups of a PI over features and stories of any    *)
(* status                                                                  *)
(***************************************************************************)
\* The status names of the issues of a source.
StatusNames == {"Done", "Closed", "done", "DONE", "Resolved"}

\* The features of PI-4, of ART A or B, and the stories linked to a
\* feature, in workstream A.
CompletionFeatures(key) ==
    {[key |-> key, labels |-> l, status |-> st] :
         l \in {<<PI4_A, PI4>>, <<PI4_B, PI4>>}, st \in StatusNames}
CompletionStories(key) ==
    {[key |-> key, status |-> st,
      customfield_10003 |-> Field(Some(p)),
      customfield_20403 |-> Field(Some(<<"A">>)),
      customfield_11702 |-> Field(Some(k)),
      epic_link |-> None,
      assignee |-> None] :
         st \in StatusNames, p \in {1, 2}, k \in FeatureKeys}

InitCompletion ==
    /\ \E features \in IssueSeqs(FeatureKeySeq, CompletionFeatures) :
       \E stories \in IssueSeqs(StoryKeySeq, CompletionStories) :
           jira = [features |-> features, stories |-> stories,
                   issues |-> <<>>]
    /\ session = ConnectedSession
    /\ call = NoCall
    /\ ret = NoRet

NextCompletion ==
    \/ GetPiMetrics
    \/ GetPiObjectivesData
    \/ Rerun

SpecCompletion == InitCompletion /\ [][NextCompletion]_vars

\* A status that is exactly "Done" or exactly "Closed".
Completed(issue) == issue.status = "Done" \/ issue.status = "Closed"

\* The story points of a set of <<feature, story>> pairs.
RECURSIVE PointsOfPairs(_)
PointsOfPairs(pairs) ==
    IF pairs = {} THEN 0
    ELSE LET p == CHOOSE x \in pairs : TRUE
         IN StoryPointsOf(jira.stories[p[2]]) + PointsOfPairs(pairs \ {p})

\* rate = completed / total x 100, where the total is positive.
IsRateOf(rate, completed, total) ==
    total > 0 => (rate.den > 0 /\ rate.num * total = completed * 100 * rate.den)

\* The features found for pi_label that belong to an ART.
FeaturesOfArt(pi_label, art) ==
    {f \in 1..Len(FeaturesFound(pi_label)) :
         FeatureRecord(FeaturesFound(pi_label)[f]).art = Some(art)}

\* C12: in get_pi_metrics and in get_pi_objectives_data the completed
\* counts and points are those of exactly the records whose status is
\* "Done" or "Closed" (not "done", "DONE" or "Resolved"), the totals are
\* those of all records, and each rate is completed / total x 100.
C12_CompletedIsExactlyDoneOrClosed ==
    /\ (call.op = "get_pi_metrics" /\ ret.ok /\ ret.val # EmptyDict) =>
           LET found == FeaturesFound(call.pi_label)
               pairs == StoriesCounted(call.pi_label, call.workstream)
               done == {p \in pairs : Completed(jira.stories[p[2]])}
               done_features ==
                   {f \in 1..Len(found) : Completed(found[f])}
           IN /\ ret.val.total_features = Len(found)
              /\ ret.val.completed_features = Cardinality(done_features)
              /\ ret.val.total_stories = Cardinality(pairs)
              /\ ret.val.completed_stories = Cardinality(done)
              /\ ret.val.total_story_points = PointsOfPairs(pairs)
              /\ ret.val.completed_story_points = PointsOfPairs(done)
              /\ IsRateOf(ret.val.feature_completion_rate,
                          Cardinality(done_features), Len(found))
              /\ IsRateOf(ret.val.story_completion_rate,
                          Cardinality(done), Cardinality(pairs))
              /\ IsRateOf(ret.val.story_points_completion_rate,
                          PointsOfPairs(done), PointsOfPairs(pairs))
    /\ (call.op = "get_pi_objectives_data" /\ ret.ok) =>
           \A i \in 1..Len(ret.val) :
               LET found == FeaturesFound(call.pi_label)
                   of_art == FeaturesOfArt(call.pi_label, ret.val[i].art)
                   pairs == {p \in StoriesCounted(call.pi_label, None) :
                                 p[1] \in of_art}
                   done == {p \in pairs : Completed(jira.stories[p[2]])}
                   done_features == {f \in of_art : Completed(found[f])}
               IN /\ ret.val[i].committed_features = Cardinality(of_art)
                  /\ ret.val[i].delivered_features =
                         Cardinality(done_features)
                  /\ ret.val[i].committed_points = PointsOfPairs(pairs)
                  /\ ret.val[i].delivered_points = PointsOfPairs(done)
                  /\ IsRateOf(ret.val[i].feature_predictability,
                              Cardinality(done_features),
                              Cardinality(of_art))
                  /\ IsRateOf(ret.val[i].points_predictability,
                              PointsOfPairs(done), PointsOfPairs(pairs))

C12_Witness ==
    /\ call.op = "get_pi_metrics"
    /\ ret.ok
    /\ Len(jira.features) = 2
    /\ jira.features[1].status = "Closed"
    /\ jira.features[2].status = "DONE"
    /\ Len(jira.stories) = 2
    /\ jira.stories[1].status = "done"
    /\ jira.stories[2].status = "Done"
    /\ ret.val # EmptyDict
    /\ ret.val.completed_features = 1
    /\ ret.val.feature_completion_rate = Fraction(100, 2)
    /\ ret.val.total_stories = 2
    /\ ret.val.completed_stories = 1

\* A string of n blanks.
Spaces(n) == [i \in 1..n |-> " "]

\* A raw workstream field that is a string with some character that is
\* not blank.
IsNonBlankString(raw) ==
    /\ raw.present
    /\ raw.value.some
    /\ "str" \notin DOMAIN raw.value
    /\ \E i \in 1..Len(raw.value.val) : raw.value.val[i] # " "

\* C13: the workstream of every story get_stories_for_feature produces is
\* a non-empty string with no blank at either end: the raw value less its
\* leading and trailing blanks when the raw field is a non-blank string,
\* "Unknown" when it is absent, null, empty, blank or not a string; and a
\* malformed value never makes the request fail.
C13_WorkstreamNormalized ==
    (call.op = "get_stories_for_feature" /\ call.outcome = "ok") =>
        /\ ret.ok
        /\ \A r \in 1..Len(ret.val.rows) :
               LET raw == jira.stories[1].customfield_20403
                   w == ret.val.rows[r].workstream
               IN /\ w # <<>>
                  /\ w[1] # " "
                  /\ w[Len(w)] # " "
                  /\ IF IsNonBlankString(raw)
                     THEN \E a, b \in 0..Len(raw.value.val) :
                              raw.value.val = Spaces(a) \o w \o Spaces(b)
                     ELSE w = Unknown

C13_Witness ==
    /\ call.op = "get_stories_for_feature"
    /\ ret.ok
    /\ jira.stories[1].customfield_20403 =
           Field(Some(<<" ", "A", " ", "B", " ">>))
    /\ Len(ret.val.rows) = 1
    /\ ret.val.rows[1].workstream = <<"A", " ", "B">>

\* C14: for every issue turned into a story, story_points is 0 when the
\* story-points field is absent or null and the value of the field
\* otherwise; assignee is "Unassigned" when the issue has no assignee and
\* the display name of the assignee otherwise.
C14_PointsAndAssigneeDefaults ==
    (call.op = "get_stories_for_feature" /\ ret.ok) =>
        \A r \in 1..Len(ret.val.rows) :
            LET issue == jira.stories[1]
                points == issue.customfield_10003
                row == ret.val.rows[r]
            IN /\ row.story_points =
                      IF ~points.present \/ points.value = None THEN 0
                      ELSE points.value.val
               /\ row.assignee =
                      IF issue.assignee = None THEN "Unassigned"
                      ELSE issue.assignee.val

C14_Witness ==
    /\ call.op = "get_stories_for_feature"
    /\ ret.ok
    /\ jira.stories[1].customfield_10003 = Field(None)
    /\ jira.stories[1].assignee = None
    /\ Len(ret.val.rows) = 1
    /\ ret.val.rows[1].story_points = 0
    /\ ret.val.rows[1].assignee = "Unassigned"

\* The issues a request for the workstreams scans: the result of the
\* targeted query, or of the fallback query when the targeted one failed.
IssuesScanned ==
    IF call.targeted = "ok"
    THEN search_issues(JqlWithWorkstream(AllIssues(jira)), "ok").val
    ELSE search_issues(AllIssues(jira), "ok").val

\* C15: the list get_all_workstreams returns holds each distinct
\* workstream of the scanned issues exactly once, its entries other than
\* "Unknown" in ascending order, and "Unknown" as its last element if and
\* only if some scanned issue normalizes to "Unknown".
C15_WorkstreamsSortedUnknownLast ==
    (call.op = "get_all_workstreams" /\ ret.ok) =>
        LET workstreams == {_get_workstream_safe(IssuesScanned[i]) :
                                i \in 1..Len(IssuesScanned)}
        IN /\ Range(ret.val) = workstreams
           /\ Len(ret.val) = Cardinality(workstreams)
           /\ \A i, j \in 1..Len(ret.val) :
                  (i < j /\ ret.val[i] # Unknown /\ ret.val[j] # Unknown) =>
                      StrLess(ret.val[i], ret.val[j])
           /\ (Unknown \in workstreams) <=>
                  (ret.val # <<>> /\ ret.val[Len(ret.val)] = Unknown)

C15_Witness ==
    /\ call.op = "get_all_workstreams"
    /\ ret = Ok(<<<<"A">>, <<"X">>, Unknown>>)
    /\ Len(jira.features) = 3
    /\ jira.features[1].customfield_20403 = Absent
    /\ jira.features[2].customfield_20403 = Field(Some(<<"X">>))

\* Some query of a request for the available PIs succeeded: the fallback
\* query, or the targeted query, which is issued only with preferred
\* labels.
SomeQuerySucceeded ==
    \/ call.fallback = "ok"
    \/ call.pi_labels # <<>> /\ call.targeted = "ok"

\* C16: get_available_pis returns a list, empty or not, only when a query
\* to the source succeeded; when every query it issues fails the failure
\* reaches the caller, so the overview's "No PI labels found" warning
\* appears only after a successful query.
C16_FailureNotAnEmptyList ==
    /\ (call.op \in {"get_available_pis", "display_pi_overview"}) =>
           (ret.ok <=> SomeQuerySucceeded)
    /\ (call.op = "display_pi_overview" /\ ret.ok
            /\ ret.val.warning = NoPiLabelsFound) => SomeQuerySucceeded

C16_Witness ==
    /\ call.op = "get_available_pis"
    /\ call.pi_labels # <<>>
    /\ call.targeted = "fail"
    /\ call.fallback = "fail"
    /\ jira.features # <<>>
    /\ ret = Raise("JIRAError")

(***************************************************************************)
(* SpecFanOut: the rollups of a PI over up to three features, one story    *)
(* query per feature                                                       *)
(***************************************************************************)
\* The keys of the features and of the stories, in the source's order.
FanOutFeatureKeys == <<"F1", "F2", "F3">>
FanOutStoryKeys == <<"S1", "S2", "S3">>

\* The story points of the stories: distinct powers of two, so that a sum
\* tells which stories it counts.
FanOutPoints(key) ==
    CASE key = "S1" -> 1 [] key = "S2" -> 2 [] key = "S3" -> 4

\* The features of PI-4, of ART A or B, and the stories, each linked to
\* one of the features.
FanOutFeatures(key) ==
    {[key |-> key, labels |-> l, status |-> st] :
         l \in {<<PI4_A, PI4>>, <<PI4_B, PI4>>}, st \in FeatureStatuses}
FanOutStories(key) ==
    {[key |-> key, status |-> st,
      customfield_10003 |-> Field(Some(FanOutPoints(key))),
      customfield_20403 |-> Field(Some(<<"A">>)),
      customfield_11702 |-> Field(Some(k)),
      epic_link |-> None,
      assignee |-> None] :
         st \in StoryStatuses, k \in Range(FanOutFeatureKeys)}

InitFanOut ==
    /\ \E features \in IssueSeqs(FanOutFeatureKeys, FanOutFeatures) :
       \E stories \in IssueSeqs(FanOutStoryKeys, FanOutStories) :
           jira = [features |-> features, stories |-> stories,
                   issues |-> <<>>]
    /\ session = ConnectedSession
    /\ call = NoCall
    /\ ret = NoRet

NextFanOut ==
    \/ GetPiMetrics
    \/ GetPiObjectivesData
    \/ Rerun

SpecFanOut == InitFanOut /\ [][NextFanOut]_vars

\* The orders a sequence can be put in.
OrdersOf(s) ==
    {[i \in 1..Len(s) |-> s[p[i]]] :
         p \in {q \in [1..Len(s) -> 1..Len(s)] :
                    \A i, j \in 1..Len(s) : q[i] = q[j] => i = j}}

\* C17: the result of the per-feature fan-out does not depend on the order
\* of the features: for every permutation of the features of the PI,
\* get_pi_metrics yields the same totals, completed counts and rates, and
\* get_pi_objectives_data the same values for each ART.
C17_FanOutOrderIndependent ==
    /\ call.op = "get_pi_metrics" =>
           \A features \in OrdersOf(jira.features) :
               get_pi_metrics([jira EXCEPT !.features = features],
                              call.pi_label, call.workstream, call.fails)
                   = ret
    /\ call.op = "get_pi_objectives_data" =>
           \A features \in OrdersOf(jira.features) :
               LET other == get_pi_objectives_data(
                                [jira EXCEPT !.features = features],
                                call.pi_label, call.fails)
               IN IF ret.ok
                  THEN other.ok /\ Range(other.val) = Range(ret.val)
                  ELSE other = ret

C17_Witness ==
    /\ call.op = "get_pi_metrics"
    /\ call.workstream = None
    /\ ret.ok
    /\ Len(jira.features) = 3
    /\ Len(jira.stories) = 3
    /\ jira.stories[1].customfield_11702 = Field(Some("F3"))
    /\ jira.stories[2].customfield_11702 = Field(Some("F1"))
    /\ jira.stories[3].customfield_11702 = Field(Some("F2"))
    /\ ret.val # EmptyDict
    /\ ret.val.total_features = 3
    /\ ret.val.total_stories = 3
    /\ ret.val.total_story_points = 7

\* The features found for pi_label whose art is defined.
FeaturesWithArt(pi_label) ==
    {f \in 1..Len(FeaturesFound(pi_label)) :
         FeatureRecord(FeaturesFound(pi_label)[f]).art # None}

\* C18: get_pi_objectives_data has one entry for each distinct defined art
\* of the features of the PI and none for an undefined art; the
\* committed_features of an entry is the number of features with exactly
\* that art, and the committed_features of all entries add up to the
\* number of features with a defined art.  The ART summary of the overview
\* drops the undefined art in the same way.
C18_UndefinedArtDropped ==
    (call.op \in {"get_pi_objectives_data", "art_summary"} /\ ret.ok) =>
        LET found == FeaturesFound(call.pi_label)
            with_art == FeaturesWithArt(call.pi_label)
            arts == {FeatureRecord(found[f]).art.val : f \in with_art}
            Committed(entry) ==
                IF call.op = "art_summary" THEN entry.total_features
                ELSE entry.committed_features
        IN /\ {ret.val[i].art : i \in 1..Len(ret.val)} = arts
           /\ Len(ret.val) = Cardinality(arts)
           /\ \A i \in 1..Len(ret.val) :
                  Committed(ret.val[i]) =
                      Cardinality({f \in with_art :
                          FeatureRecord(found[f]).art.val = ret.val[i].art})
           /\ call.op = "get_pi_objectives_data" =>
                  SumField(ret.val, "committed_features")
                      = Cardinality(with_art)

C18_Witness ==
    /\ call.op = "get_pi_objectives_data"
    /\ call.pi_label = PI4
    /\ ret.ok
    /\ Len(jira.features) = 2
    /\ jira.features[1].labels = <<PI4>>
    /\ jira.features[2].labels = <<PI4_B, PI4>>
    /\ Len(ret.val) = 1
    /\ ret.val[1].art = <<"B">>
    /\ ret.val[1].committed_features = 1

(***************************************************************************)
(* SpecScores: the scores of one ART for any two predictabilities          *)
(***************************************************************************)
\* The largest denominator of a predictability.
MaxDenominator == 3

\* The percentages in [0, 100] with a denominator up to MaxDenominator.
Percentages ==
    UNION {{Fraction(n, d) : n \in 0..(100 * d)} : d \in 1..MaxDenominator}

InitScores ==
    /\ jira = [features |-> <<>>, stories |-> <<>>, issues |-> <<>>]
    /\ session = ConnectedSession
    /\ call = NoCall
    /\ ret = NoRet

\* The scores of one entry of objectives_data are computed.
ScoreArt ==
    /\ Idle
    /\ \E fp \in Percentages, pp \in Percentages :
           /\ call' = [op |-> "performance_row",
                       feature_predictability |-> fp,
                       points_predictability |-> pp]
           /\ ret' = Ok(PerformanceRow(
                           [art |-> <<"A">>,
                            committed_features |-> 0,
                            delivered_features |-> 0,
                            committed_points |-> 0,
                            delivered_points |-> 0,
                            feature_predictability |-> fp,
                            points_predictability |-> pp]))
    /\ UNCHANGED <<jira, session>>

NextScores == ScoreArt \/ Rerun

SpecScores == InitScores /\ [][NextScores]_vars

\* C19: for every feature_predictability and points_predictability in
\* [0, 100] the scores are computed, and predictability_score,
\* quality_score and overall_score all lie in [0, 100].
C19_ScoresInRange ==
    call.op = "performance_row" =>
        /\ ret.ok
        /\ InRange(ret.val.predictability_score)
        /\ InRange(ret.val.quality_score)
        /\ InRange(ret.val.overall_score)
        /\ ret.val.quality_score_col \in 0..1000
        /\ ret.val.overall_score_col \in 0..1000

C19_Witness ==
    /\ call.op = "performance_row"
    /\ call.feature_predictability = Fraction(100, 1)
    /\ call.points_predictability = Fraction(100, 1)
    /\ ret.ok
    /\ ret.val.quality_score = Fraction(100, 1)
    /\ ret.val.overall_score.num = 100 * ret.val.overall_score.den

\* C20: an ART with committed_points > 0 and delivered_points = 0 has
\* points_predictability 0, quality_score 0 and overall_score =
\* predictability_score x 0.6, whatever its feature_predictability.
C20_NothingDeliveredScores ==
    /\ (call.op = "get_pi_objectives_data" /\ ret.ok) =>
           \A i \in 1..Len(ret.val) :
               (ret.val[i].committed_points > 0
                    /\ ret.val[i].delivered_points = 0) =>
                   IsZero(ret.val[i].points_predictability)
    /\ (call.op = "calculate_art_performance_scores" /\ ret.ok) =>
           \A i \in 1..Len(ret.val.rows) :
               LET row == ret.val.rows[i]
               IN (row.points_committed > 0 /\ row.points_delivered = 0) =>
                      /\ row.points_predictability_pct = 0
                      /\ IsZero(row.quality_score)
                      /\ row.overall_score.den > 0
                      /\ row.overall_score.num * row.predictability_score.den
                             * 5
                         = row.predictability_score.num * 3
                               * row.overall_score.den

C20_Witness ==
    /\ call.op = "calculate_art_performance_scores"
    /\ ret.ok
    /\ Len(ret.val.rows) = 1
    /\ ret.val.rows[1].features_committed = 1
    /\ ret.val.rows[1].features_delivered = 1
    /\ ret.val.rows[1].points_committed = 2
    /\ ret.val.rows[1].points_delivered = 0
    /\ ret.val.rows[1].quality_score_col = 0
    /\ ret.val.rows[1].overall_score_col = 300

\* The issue of the source a record of calculate_cycle_time was made of.
IssueOfRecord(row) ==
    CHOOSE i \in 1..Len(jira.issues) : jira.issues[i].key = row.issue_key

\* C21: cycle_time_days of every record is the floor of (completed -
\* created) in whole days, with created the creation time of the issue: it
\* is 0 for a completion less than a day after the creation and negative
\* for a completion before the creation, never clamped.
C21_CycleTimeIsFloorOfDays ==
    (call.op = "calculate_cycle_time" /\ ret.ok) =>
        \A r \in 1..Len(ret.val.rows) :
            LET row == ret.val.rows[r]
                delta == row.completed - row.created
            IN /\ row.created = jira.issues[IssueOfRecord(row)].created
               /\ row.cycle_time_days * HoursPerDay <= delta
               /\ delta < (row.cycle_time_days + 1) * HoursPerDay
               /\ (0 <= delta /\ delta < HoursPerDay) =>
                      row.cycle_time_days = 0
               /\ delta < 0 => row.cycle_time_days < 0

C21_Witness ==
    /\ call.op = "calculate_cycle_time"
    /\ ret.ok
    /\ Len(ret.val.rows) = 1
    /\ ret.val.rows[1].created = 40
    /\ ret.val.rows[1].completed = 30
    /\ ret.val.rows[1].cycle_time_days = -1

\* The issues create_burndown_chart found for its call.
BurndownIssues ==
    search_issues_changelog(
        JqlIssuesOfSprint(jira.issues, call.workstream, call.sprint),
        "ok").val

\* The float of an integer n >= 0.
FloatOfInt(n) == Float(FALSE, NatBits(n), 0)

\* C22: the burndown series has one entry for each day offset 0..14 (15
\* entries) in ascending date order; ideal_remaining equals total_points
\* at offset 0, equals 0 at offset 14 and is non-increasing in the offset.
C22_IdealLineFromTotalToZero ==
    (call.op = "create_burndown_chart" /\ ret.ok) =>
        /\ Len(ret.val) = SprintDays + 1
        /\ \A d \in 1..Len(ret.val) : ret.val[d].date = d - 1
        /\ ret.val[1].ideal_remaining
               = FloatOfInt(total_points(BurndownIssues))
        /\ ret.val[Len(ret.val)].ideal_remaining = FloatOfInt(0)
        /\ \A d \in 1..(Len(ret.val) - 1) :
               FloatLeq(ret.val[d + 1].ideal_remaining,
                        ret.val[d].ideal_remaining)

\* C23: for every Feature get_features_by_pi produces, art defined implies
\* pi defined; pi defined with art undefined occurs (a PI- label without a
\* second segment).
C23_ArtImpliesPi ==
    (call.op = "get_features_by_pi" /\ ret.ok) =>
        \A i \in 1..Len(ret.val.rows) :
            ret.val.rows[i].art.some => ret.val.rows[i].pi.some

C23_Witness ==
    /\ call.op = "get_features_by_pi"
    /\ ret.ok
    /\ Len(ret.val.rows) = 1
    /\ jira.features[1].labels = <<PI4>>
    /\ ret.val.rows[1].pi = Some(PI4)
    /\ ret.val.rows[1].art = None

\* C24: no computation modifies a previously derived table or any state
\* that survives the request: every operation leaves the issue source and
\* the session fields jira_client, connected and pi_labels as they were,
\* and a features frame handed to create_feature_health_matrix is the same
\* frame afterwards.
C24_NoMutation ==
    [][/\ jira' = jira
       /\ session' = session
       /\ (call'.op = "create_feature_health_matrix" /\ ret'.ok) =>
              ret'.val.features_df = call'.features_df]_vars

(***************************************************************************)
(* SpecLinks: get_pi_metrics over stories linked to features by the link   *)
(* field, by the epic link, or by both                                     *)
(***************************************************************************)
\* The features of PI-4, and the stories: of workstream A and 2 points,
\* with any link field and any epic link.
LinkFeatures(key) == {[key |-> key, labels |-> <<PI4>>, status |-> "Open"]}
LinkStories(key) ==
    {[key |-> key, status |-> st,
      customfield_10003 |-> Field(Some(2)),
      customfield_20403 |-> Field(Some(<<"A">>)),
      customfield_11702 |-> l,
      epic_link |-> e,
      assignee |-> None] :
         st \in StoryStatuses, l \in LinkFields, e \in EpicLinks}

InitLinks ==
    /\ \E features \in IssueSeqs(FeatureKeySeq, LinkFeatures) :
       \E stories \in IssueSeqs(StoryKeySeq, LinkStories) :
           jira = [features |-> features, stories |-> stories,
                   issues |-> <<>>]
    /\ session = ConnectedSession
    /\ call = NoCall
    /\ ret = NoRet

NextLinks == GetPiMetrics \/ Rerun

SpecLinks == InitLinks /\ [][NextLinks]_vars

\* The keys of the stories of the source that are linked to a feature the
\* request finds and pass its workstream filter.
StoryKeysCounted(pi_label, workstream) ==
    {jira.stories[p[2]].key : p \in StoriesCounted(pi_label, workstream)}

\* C25: in get_pi_metrics each story is counted at most once:
\* total_stories is the number of distinct story keys linked to any feature
\* of the PI, also when the link field of a story names one feature and
\* its epic link another.
C25_EachStoryCountedOnce ==
    (call.op = "get_pi_metrics" /\ ret.ok /\ ret.val # EmptyDict) =>
        ret.val.total_stories =
            Cardinality(StoryKeysCounted(call.pi_label, call.workstream))

(***************************************************************************)
(* SpecSession: the sidebar of authenticate_jira over the session state    *)
(***************************************************************************)
\* The update of the PI labels from the text area, given as its lines: the
\* non-blank lines replace pi_labels when the text is not empty and they
\* differ from it.
update_pi_labels(state, pi_labels_text) ==
    LET NonBlank(label) == label # ""
        new_labels == SelectSeq(pi_labels_text, NonBlank)
    IN IF pi_labels_text # <<>> /\ new_labels # state.pi_labels
       THEN [state EXCEPT !.pi_labels = new_labels]
       ELSE state

\* The handler with the client stored before the connection is tested.
connect_ClientBeforeTest(state, server_url, api_token, construct, test) ==
    IF server_url # "" /\ api_token # ""
    THEN IF construct = "raise"
         THEN [session |-> state, message |-> "Connection error"]
         ELSE IF test
              THEN [session |->
                        [state EXCEPT
                             !.jira_client =
                                 Some(JiraClient(server_url, api_token)),
                             !.connected = TRUE],
                    message |-> "Connected to Jira Server!"]
              ELSE [session |->
                        [state EXCEPT
                             !.jira_client =
                                 Some(JiraClient(server_url, api_token))],
                    message |-> "Failed to connect to Jira Server"]
    ELSE [session |-> state,
          message |-> "Please provide server URL and PAT"]

\* The handler of the button "Connect to Jira": construct tells whether
\* JiraClient(config) returns or raises, test is what test_connection
\* returns.
connect(state, server_url, api_token, construct, test) ==
    IF server_url # "" /\ api_token # ""
    THEN IF construct = "raise"
         THEN [session |-> state, message |-> "Connection error"]
         ELSE IF test
              THEN [session |->
                        [state EXCEPT
                             !.jira_client =
                                 Some(JiraClient(server_url, api_token)),
                             !.connected = TRUE],
                    message |-> "Connected to Jira Server!"]
              ELSE [session |-> state,
                    message |-> "Failed to connect to Jira Server"]
    ELSE [session |-> state,
          message |-> "Please provide server URL and PAT"]

\* authenticate_jira: the session after it, the message of the sidebar
\* ("" without a click) and the value it returns.
authenticate_jira(state, text, button, server_url, api_token, construct, test) ==
    LET labelled == update_pi_labels(state, text)
        out == IF button
               THEN connect(labelled, server_url, api_token, construct, test)
               ELSE [session |-> labelled, message |-> ""]
    IN [session |-> out.session, message |-> out.message,
        connected |-> out.session.connected]

\* What the user enters in the sidebar.
ServerUrls == {"", "https://a", "https://b"}
ApiTokens == {"", "pat"}
PiLabelTexts == {<<>>, <<"PI-4_Reporting", "">>, DefaultPiLabels}
ConstructOutcomes == {"ok", "raise"}

InitSession ==
    /\ jira = [features |-> <<>>, stories |-> <<>>, issues |-> <<>>]
    /\ session = NewSession
    /\ call = NoCall
    /\ ret = NoRet

AuthenticateJira ==
    /\ Idle
    /\ \E pi_labels_text \in PiLabelTexts, button \in BOOLEAN,
          server_url \in ServerUrls, api_token \in ApiTokens,
          construct \in ConstructOutcomes, test \in BOOLEAN :
           LET out == authenticate_jira(session, pi_labels_text, button,
                                        server_url, api_token, construct,
                                        test)
           IN /\ call' = [op |-> "authenticate_jira",
                          pi_labels_text |-> pi_labels_text,
                          button |-> button, server_url |-> server_url,
                          api_token |-> api_token, construct |-> construct,
                          test |-> test]
              /\ ret' = Ok([message |-> out.message,
                            connected |-> out.connected])
              /\ session' = out.session
    /\ UNCHANGED jira

NextSession == AuthenticateJira \/ Rerun

SpecSession == InitSession /\ [][NextSession]_vars

\* The attempt of a call connects: the button was clicked with a URL and a
\* token, the client was constructed and test_connection returned true.
AttemptSucceeds(c) ==
    /\ c.button
    /\ c.server_url # ""
    /\ c.api_token # ""
    /\ c.construct = "ok"
    /\ c.test

\* C26: after any sequence of connect attempts connected is true if and
\* only if jira_client is set; an attempt sets connected (and the client
\* it constructed) only when the construction succeeded and
\* test_connection returned true; any other attempt leaves connected and
\* jira_client as they were.
C26_ConnectedIffClient ==
    /\ [](session.connected <=> session.jira_client.some)
    /\ [][call'.op = "authenticate_jira" =>
              IF AttemptSucceeds(call')
              THEN /\ session'.connected
                   /\ session'.jira_client =
                          Some(JiraClient(call'.server_url,
                                          call'.api_token))
              ELSE /\ session'.connected = session.connected
                   /\ session'.jira_client = session.jira_client]_vars

C26_Witness ==
    /\ call.op = "authenticate_jira"
    /\ call.button
    /\ call.server_url = "https://b"
    /\ call.api_token = "pat"
    /\ call.construct = "ok"
    /\ ~call.test
    /\ session.connected
    /\ session.jira_client = Some(JiraClient("https://a", "pat"))

\* C27: in the burndown series remaining_points is non-increasing over the
\* day offsets 0..14, for any issues with non-negative story points and
\* any histories.
C27_RemainingNonIncreasing ==
    (call.op = "create_burndown_chart" /\ ret.ok) =>
        \A d1 \in 1..Len(ret.val) : \A d2 \in (d1 + 1)..Len(ret.val) :
            ret.val[d2].remaining_points <= ret.val[d1].remaining_points

C27_Witness ==
    /\ call.op = "create_burndown_chart"
    /\ ret.ok
    /\ ret.val[1].remaining_points = 29
    /\ ret.val[2].remaining_points = 21
    /\ ret.val[14].remaining_points = 21
    /\ ret.val[15].remaining_points = 0

====
